---- MODULE Spec2Model ----
(***************************************************************************)
(* secure3270proxy: the per-connection session handler                     *)
(* (handleStandardConnection / handleTLSConnection), the login loop        *)
(* (HandleAuth, authenticateUser), the host menu (handleProxyConnection)   *)
(* and the relay engine (connectToHost with its two direction goroutines). *)
(*                                                                         *)
(* Strings the code only compares are TLA+ strings.  The menu selection is *)
(* parsed by the code (strings.ToUpper, strconv.Atoi), so it is a sequence *)
(* of one-character strings.  Durations are in milliseconds; 0 is "no      *)
(* deadline" (time.Time{}).                                                *)
(***************************************************************************)
EXTENDS Integers, Sequences, FiniteSets, TLC

\* ------------------------------------------------------------------ bounds

\* longest credential list drawn for the lookup specification
MaxUsers == 2
\* size of the default host catalog
DefaultHosts == 2
\* size of the default host catalog of the large-catalog specification
MaxHosts == 99
\* consecutive invalid selections that are counted
MaxInvalid == 2
\* consecutive rejected logins that are counted
MaxFailedLogins == 2
\* lines of users.cnf a load is followed over
MaxLines == 2
\* sessions followed beside the one followed in detail
MaxPeers == 2
\* retried Accept calls counted per endpoint
MaxRetries == 2
\* read timeouts in a row counted in a relay
MaxTimeouts == 2

\* ------------------------------------------------------- program constants

\* cells of the menu's selection field, between the field at column 36 and
\* the autoskip field at column 39
SelFieldWidth == 2
StdHandshakeDeadline == 30000
TlsHandshakeDeadline == 60000
UnnegDeadline == 10000
ReadSlice == 200
WriteTimeout == 5000
RenegDeadline == 10000
MaxRenegAttempts == 3

\* ------------------------------------------------------------- data types

NoDeadline == 0
\* tcpListener.SetDeadline(time.Now().Add(1 * time.Minute)), in seconds
AcceptPeriod == 60
\* startXServer: a cycle that ran longer than 5*time.Minute restarts at once
HealthyRun == 300
\* startXServer: time.Sleep(30 * time.Second) before another restart;
\* the supervisors' clocks advance in steps of this length
RestartDelay == 30
\* time.Sleep(10 * time.Second) of the branch for a nil return, in seconds
ShutdownDelay == 10

\* characters a selection is typed from
SelChars == {"0", "1", "2", "9", "X", "x", "a", "-", "+", " "}

RECURSIVE SeqsUpTo(_, _)
SeqsUpTo(S, n) ==
    IF n = 0 THEN {<<>>}
    ELSE LET shorter == SeqsUpTo(S, n - 1)
         IN  shorter \cup {Append(s, c) : s \in {t \in shorter : Len(t) = n - 1}, c \in S}

Selections == SeqsUpTo(SelChars, SelFieldWidth)

\* type User struct
User(u, p, f) == [Username |-> u, Password |-> p, HostFile |-> f]

\* type Host struct; a host of catalog file f at position i
Host(f, i) == [Name |-> <<f, i>>, Host |-> <<"addr", f, i>>, Port |-> 23]

Catalog(f, n) == [i \in 1..n |-> Host(f, i)]

\* type authSession struct; &authSession{} is the zero value
authSession(a, u, f) == [authenticated |-> a, username |-> u, hostFile |-> f]

EmptySession == authSession(FALSE, "", "")

\* ---------------------------------------------------------- pure functions

Min(a, b) == IF a < b THEN a ELSE b

\* authenticateUser: the first record in list order whose username and
\* password both equal the inputs decides; no such record gives (false, "")
RECURSIVE ScanUsers(_, _, _, _)
ScanUsers(users, i, username, password) ==
    IF i > Len(users) THEN [ok |-> FALSE, hostFile |-> ""]
    ELSE IF username = users[i].Username /\ password = users[i].Password
         THEN [ok |-> TRUE, hostFile |-> users[i].HostFile]
         ELSE ScanUsers(users, i + 1, username, password)

authenticateUser_LastMatch(users, username, password) ==
    LET hits == {i \in 1..Len(users) :
                    username = users[i].Username /\ password = users[i].Password}
    IN  IF hits = {} THEN [ok |-> FALSE, hostFile |-> ""]
        ELSE [ok |-> TRUE,
              hostFile |-> users[CHOOSE i \in hits : \A j \in hits : j <= i].HostFile]

authenticateUser(users, username, password) ==
    ScanUsers(users, 1, username, password)

\* strings.ToUpper on one character of the selection alphabet
ToUpperChar(c) == CASE c = "x" -> "X" [] c = "a" -> "A" [] OTHER -> c

ToUpper(s) == [i \in 1..Len(s) |-> ToUpperChar(s[i])]

IsDigit(c) == c \in {"0", "1", "2", "3", "4", "5", "6", "7", "8", "9"}

DigitVal(c) ==
    CASE c = "0" -> 0 [] c = "1" -> 1 [] c = "2" -> 2 [] c = "3" -> 3 [] c = "4" -> 4
      [] c = "5" -> 5 [] c = "6" -> 6 [] c = "7" -> 7 [] c = "8" -> 8 [] c = "9" -> 9

RECURSIVE DigitsVal(_)
DigitsVal(ds) ==
    IF ds = <<>> THEN 0
    ELSE 10 * DigitsVal(SubSeq(ds, 1, Len(ds) - 1)) + DigitVal(ds[Len(ds)])

\* strconv.Atoi: an optional sign, then one or more decimal digits and
\* nothing else; anything else is a syntax error
Atoi(s) ==
    LET signed == s # <<>> /\ s[1] \in {"+", "-"}
        ds     == IF signed THEN Tail(s) ELSE s
    IN  IF ds = <<>> \/ \E i \in 1..Len(ds) : ~IsDigit(ds[i])
        THEN [err |-> TRUE, num |-> 0]
        ELSE [err |-> FALSE,
              num |-> IF signed /\ s[1] = "-" THEN 0 - DigitsVal(ds) ELSE DigitsVal(ds)]

\* the disconnect test of the menu: selection == "99" || ToUpper(selection) == "X"
IsDisconnect(selection) ==
    selection = <<"9", "9">> \/ ToUpper(selection) = <<"X">>

MenuDecision_ErrorReturns(selection, nHosts) ==
    IF IsDisconnect(selection) THEN "disconnect"
    ELSE LET a == Atoi(selection)
         IN  IF a.err THEN "disconnect"
             ELSE IF a.num < 1 \/ a.num > nHosts THEN "redisplay" ELSE "connect"

MenuDecision_ParseFirst(selection, nHosts) ==
    LET r == Atoi(selection)
    IN  IF ~r.err /\ r.num >= 1 /\ r.num <= nHosts THEN "connect"
        ELSE IF IsDisconnect(selection) THEN "disconnect"
        ELSE "redisplay"

MenuDecision_FromZero(selection, nHosts) ==
    LET r == Atoi(selection)
    IN  IF IsDisconnect(selection) THEN "disconnect"
        ELSE IF r.err \/ r.num < 0 \/ r.num > nHosts THEN "redisplay"
        ELSE "connect"

\* what handleProxyConnection does with an Enter response: the disconnect
\* test first, then err != nil || num < 1 || num > len(config.Hosts)
MenuDecision(selection, nHosts) ==
    LET r == Atoi(selection)
    IN  IF IsDisconnect(selection) THEN "disconnect"
        ELSE IF r.err \/ r.num < 1 \/ r.num > nHosts THEN "redisplay"
        ELSE "connect"

\* ------------------------------------------------------------ environment

\* the per-user catalog files of the credential records below: "user_ok"
\* loads, "user_bad" does not parse, "user_empty" holds an empty list, and
\* any other name ("user_missing") cannot be read

\* os.ReadFile: err is TRUE when the file cannot be read
ReadFile(f) ==
    CASE f = "user_ok"      -> [err |-> FALSE, data |-> "two hosts"]
      [] f = "user_bad"     -> [err |-> FALSE, data |-> "one host, then garbage"]
      [] f = "user_empty"   -> [err |-> FALSE, data |-> "empty list"]
      [] OTHER              -> [err |-> TRUE, data |-> ""]

\* json.Unmarshal into a fresh []Host: on a syntax error the slice may hold
\* the hosts decoded before the error
Unmarshal(f, data) ==
    CASE data = "two hosts"  -> [err |-> FALSE, hosts |-> Catalog(f, 2)]
      [] data = "empty list" -> [err |-> FALSE, hosts |-> <<>>]
      [] OTHER               -> [err |-> TRUE, hosts |-> Catalog(f, 1)]

\* the credential list of the running proxy: LoadAuthConfig keeps only
\* records with a non-empty username and password; usernames may repeat
StoreUsers ==
    << User("u1", "p1", ""),
       User("u2", "p2", "user_ok"),
       User("u2", "p2", "user_bad"),
       User("u3", "p3", "user_bad"),
       User("u4", "p4", "user_missing"),
       User("u5", "p5", "user_empty") >>

\* what a terminal can type into the login form
Usernames == {"", "u1", "u2", "u3", "u4", "u5"}
Passwords == {"", "p1", "p2", "p3", "p4", "p5"}

ValidRecord_PasswordOnly(username, password) == password # ""

\* LoadAuthConfig: a line of users.cnf is kept when its trimmed username and
\* password are both non-empty
ValidRecord(username, password) == username # "" /\ password # ""

\* the credential lists of the lookup specification: the fields the lines
\* of users.cnf can hold, and the records LoadAuthConfig keeps of them
LookupNames == {"", "u1", "u2"}
LookupPasswords == {"", "p1", "p2"}
LookupFiles == {"", "user_ok"}
LookupRecords ==
    {r \in {User(u, p, f) : u \in LookupNames, p \in LookupPasswords, f \in LookupFiles} :
        ValidRecord(r.Username, r.Password)}
LookupLists == SeqsUpTo(LookupRecords, MaxUsers)

\* ------------------------------------------------------------------ state

VARIABLES
    authUsers,    \* var authUsers []User
    configHosts,  \* config.Hosts, the default catalog
    kind,         \* "std" (handleStandardConnection) or "tls" (handleTLSConnection)
    pc,           \* where the connection's handler is
    exit,         \* the return statement that ended the handler
    connOpen,     \* the client conn has not been closed by the proxy
    proto,        \* protocol state of the client conn
    connRD,       \* read deadline on the client conn
    connWD,       \* write deadline on the client conn
    negotiated,   \* the handler's first NegotiateTelnet returned nil
    lookup,       \* the last authenticateUser call and its answer
    session,      \* session of HandleAuth / authSession of the handler
    errorMsg,     \* fieldValues[fieldErrorMsg] is set
    failedLogins, \* rejected submissions in a row, counted up to MaxFailedLogins
    userHosts,    \* userConfig.Hosts
    selection,    \* resp.Values["selection"] of the last menu response
    selNum,       \* num of the host being connected to
    protoAtCall,  \* proto when the connectToHost in progress was called, "none" outside a call
    invalidRun,   \* invalid selections in a row, counted up to MaxInvalid
    result,       \* what the last connectToHost call returned
    notices,      \* error screens presented for the current dispatch
    noticeHost,   \* host name shown on the error screen
    target,       \* targetConn: "none", "open", "closed"
    ctxDone,      \* ctx has been cancelled
    errChan,      \* buffered channel errChan
    wg,           \* counter of the WaitGroup
    tpc,          \* position of each direction goroutine
    tleft,        \* time left before the deadline of its pending read or write
    finalErr,     \* finalErr of connectToHost
    attempts,     \* attempts of the re-negotiation loop
    negotiateErr, \* negotiateErr of the re-negotiation loop
    timed,        \* time is tracked
    sinceCancel,  \* time since ctx was cancelled
    timeoutRun,   \* read timeouts in a row in the relay, counted up to MaxTimeouts
    mainPc,       \* where main() is
    tlsWanted,    \* config.TLSEnabled && config.TLSPort > 0
    tlsFiles,     \* what config.TLSCert and config.TLSKey name on disk
    usersFile,    \* users.cnf on disk
    listeners,    \* listeners each supervisor has open on its port
    retries,      \* Accept calls of each endpoint retried inside a cycle, counted up to MaxRetries
    peers,        \* the sessions running beside the followed one: kind, stage, catalog
    sup,          \* where each listener supervisor is
    ran,          \* time.Since(startTime) of each supervisor, in seconds
    wait,         \* seconds left of the supervisor's time.Sleep
    lastErr,      \* err of the last runXServer call of each supervisor
    sinceFail     \* seconds since that call returned

handlerVars == <<kind, pc, exit, connOpen, proto, connRD, connWD, negotiated>>
authVars    == <<lookup, session, errorMsg, failedLogins, userHosts>>
menuVars    == <<selection, selNum, protoAtCall, invalidRun, result, notices, noticeHost>>
relayVars   == <<target, ctxDone, errChan, wg, tpc, tleft, finalErr, attempts,
                 negotiateErr, sinceCancel, timeoutRun>>
procVars    == <<mainPc, tlsWanted, tlsFiles, usersFile, peers, retries, listeners, sup, ran, wait, lastErr, sinceFail>>
globalVars  == <<authUsers, configHosts, timed, procVars>>

vars == <<globalVars, handlerVars, authVars, menuVars, relayVars>>

Tasks == {"c2t", "t2c"}

ErrChanCap == 2

NoLookup == [username |-> "", password |-> "", ok |-> FALSE, hostFile |-> "",
             called |-> FALSE]

\* the connection a direction goroutine reads from, and the one it writes to
Src(i) == IF i = "c2t" THEN "client" ELSE "target"
Dst(i) == IF i = "c2t" THEN "target" ELSE "client"

RelayPcs == {"unneg", "dial", "waitErr", "closeTarget", "wgWait", "reset", "reneg", "ret"}

\* the states of the session state machine
SessionState ==
    CASE pc \in {"Accepted", "Handshaking"} -> "Handshaking"
      [] pc = "Authenticating"              -> "Authenticating"
      [] pc = "MenuDisplayed"               -> "MenuDisplayed"
      [] pc \in RelayPcs                    -> "Relaying"
      [] pc = "ErrorNotice"                 -> "ErrorNotice"
      [] pc = "Closed"                      -> "Closed"
      [] pc = "Unaccepted"                  -> "NoConnection"
      [] OTHER                              -> "Panicked"

\* the locals of connectToHost before the call and after the return
RelayIdle ==
    /\ target = "none"
    /\ ctxDone = FALSE
    /\ errChan = <<>>
    /\ wg = 0
    /\ tpc = [i \in Tasks |-> "none"]
    /\ tleft = [i \in Tasks |-> 0]
    /\ finalErr = "none"
    /\ attempts = 0
    /\ negotiateErr = FALSE
    /\ sinceCancel = 0
    /\ timeoutRun = 0

\* a connection just accepted by a listener, before its handler has run
InitConn ==
    /\ kind \in {"std", "tls"}
    /\ pc = "Accepted"
    /\ exit = "none"
    /\ connOpen = TRUE
    /\ proto = "fresh"
    /\ connRD = NoDeadline
    /\ connWD = NoDeadline
    /\ negotiated = FALSE
    /\ lookup = NoLookup
    /\ session = EmptySession
    /\ errorMsg = FALSE
    /\ failedLogins = 0
    /\ userHosts = <<>>
    /\ selection = <<>>
    /\ selNum = 0
    /\ protoAtCall = "none"
    /\ invalidRun = 0
    /\ result = "none"
    /\ notices = 0
    /\ noticeHost = <<>>
    /\ RelayIdle

Kinds == {"std", "tls"}

\* the certificate and key files: each missing, present but not a loadable
\* pair, or a good pair
TlsFileStates ==
    {[cert |-> "missing", key |-> "ok"], [cert |-> "ok", key |-> "missing"],
     [cert |-> "bad", key |-> "bad"], [cert |-> "ok", key |-> "ok"]}


\* strings.TrimSpace on a field of a line of users.cnf
TrimSpace(x) == IF x = " " THEN "" ELSE x

\* a line of users.cnf after TrimSpace and SplitN(line, "/", 3): the empty
\* sequence is a blank line, a first field that starts with "#" a comment
CommentFields == {"#u1"}

FileLines ==
    { <<>>, <<"#u1", "p1">>, <<"u1">>, <<"u1", "p1">>, <<"u2", "p2", "user_ok">>,
      <<" ", "p1">>, <<"u1", " ">>, <<"u2", "">> }

\* users.cnf as os.Open and the scanner present it: whether it opens, the
\* lines the scanner delivers, and whether scanning ends with scanner.Err()
UsersFiles ==
    [openErr : BOOLEAN, lines : SeqsUpTo(FileLines, MaxLines), readErr : BOOLEAN]

GoodUsersFile == [openErr |-> FALSE, lines |-> << <<"u1", "p1">> >>, readErr |-> FALSE]

\* one pass of the scanner loop: the records a line appends to users
ParseLine(parts) ==
    IF parts = <<>> \/ parts[1] \in CommentFields THEN <<>>
    ELSE IF Len(parts) < 2 THEN <<>>
    ELSE LET username == TrimSpace(parts[1])
             password == TrimSpace(parts[2])
             hostFile == IF Len(parts) >= 3 THEN TrimSpace(parts[3]) ELSE ""
         IN  IF ValidRecord(username, password)
             THEN <<User(username, password, hostFile)>>
             ELSE <<>>

RECURSIVE ScanLines(_)
ScanLines(lines) ==
    IF lines = <<>> THEN <<>>
    ELSE ParseLine(Head(lines)) \o ScanLines(Tail(lines))

\* a load that stores what it had read when the scanner reports an error
LoadAuthConfig_KeepsPartial(file, users) ==
    LET read == ScanLines(file.lines)
    IN  IF file.openErr THEN [err |-> "open", users |-> users]
        ELSE IF file.readErr THEN [err |-> "read", users |-> read]
        ELSE IF Len(read) = 0 THEN [err |-> "noUsers", users |-> users]
        ELSE [err |-> "none", users |-> read]

\* LoadAuthConfig: the error it returns and authUsers after the call
LoadAuthConfig(file, users) ==
    LET read == ScanLines(file.lines)
    IN  IF file.openErr THEN [err |-> "open", users |-> users]
        ELSE IF file.readErr THEN [err |-> "read", users |-> users]
        ELSE IF Len(read) = 0 THEN [err |-> "noUsers", users |-> users]
        ELSE [err |-> "none", users |-> read]

\* main() blocked in select {} with both supervisors in their accept loops
ProcRunning ==
    /\ mainPc = "running"
    /\ usersFile = GoodUsersFile
    /\ peers = <<>>
    /\ retries = [k \in Kinds |-> 0]
    /\ listeners = [k \in Kinds |-> 1]
    /\ tlsWanted = TRUE
    /\ tlsFiles = [cert |-> "ok", key |-> "ok"]
    /\ sup = [k \in Kinds |-> "accept"]
    /\ ran = [k \in Kinds |-> 0]
    /\ wait = [k \in Kinds |-> 0]
    /\ lastErr = [k \in Kinds |-> "none"]
    /\ sinceFail = [k \in Kinds |-> 0]

Init ==
    /\ ProcRunning
    /\ authUsers = StoreUsers
    /\ configHosts = Catalog("default", DefaultHosts)
    /\ timed = FALSE
    /\ InitConn

\* ------------------------------------------------- the connection handlers

\* a handler without the deferred conn.Close()
HandlerReturn_LeavesOpen(reason) ==
    /\ pc' = "Closed"
    /\ exit' = reason
    /\ connOpen' = connOpen

\* a return of the handler: the deferred conn.Close() runs
HandlerReturn(reason) ==
    /\ pc' = "Closed"
    /\ exit' = reason
    /\ connOpen' = FALSE

\* conn.SetDeadline(t): both the read and the write deadline
SetDeadline(d) ==
    /\ connRD' = d
    /\ connWD' = d

\* handleStandardConnection: conn.SetDeadline(30 s)
StdSetDeadline ==
    /\ kind = "std"
    /\ pc = "Accepted"
    /\ pc' = "Handshaking"
    /\ SetDeadline(StdHandshakeDeadline)
    /\ UNCHANGED <<kind, exit, connOpen, proto, negotiated>>
    /\ UNCHANGED <<globalVars, authVars, menuVars, relayVars>>

\* handleTLSConnection: the settle sleep, then conn.SetDeadline(60 s), the
\* default of config.TLSTimeout
TlsSetDeadline ==
    /\ kind = "tls"
    /\ pc = "Accepted"
    /\ pc' = "Handshaking"
    /\ SetDeadline(TlsHandshakeDeadline)
    /\ UNCHANGED <<kind, exit, connOpen, proto, negotiated>>
    /\ UNCHANGED <<globalVars, authVars, menuVars, relayVars>>

NegotiateResult_ProceedsOnError(ok) ==
    /\ pc = "Handshaking"
    /\ proto' = IF ok THEN "block" ELSE "negFailed"
    /\ negotiated' = ok
    /\ SetDeadline(NoDeadline)
    /\ pc' = "Authenticating"
    /\ UNCHANGED <<kind, exit, connOpen>>
    /\ UNCHANGED <<globalVars, authVars, menuVars, relayVars>>

\* the handler's NegotiateTelnet and what follows it: on an error the handler
\* returns, otherwise it clears the deadline and calls HandleAuth
NegotiateResult(ok) ==
    /\ pc = "Handshaking"
    /\ IF ok
       THEN /\ proto' = "block"
            /\ negotiated' = TRUE
            /\ SetDeadline(NoDeadline)
            /\ pc' = "Authenticating"
            /\ UNCHANGED <<exit, connOpen>>
       ELSE /\ proto' = "negFailed"
            /\ HandlerReturn("negotiateFailed")
            /\ UNCHANGED <<negotiated, connRD, connWD>>
    /\ UNCHANGED kind
    /\ UNCHANGED <<globalVars, authVars, menuVars, relayVars>>

StdNegotiate == kind = "std" /\ \E ok \in BOOLEAN : NegotiateResult(ok)

TlsNegotiate == kind = "tls" /\ \E ok \in BOOLEAN : NegotiateResult(ok)

StdUserHosts_KeepsPartial(hosts, hostFile) ==
    IF hostFile = "" THEN hosts
    ELSE LET proxyData == ReadFile(hostFile)
         IN  IF proxyData.err THEN hosts
             ELSE Unmarshal(hostFile, proxyData.data).hosts

\* a handler that keeps the default catalog when the user's file lists no host
StdUserHosts_DefaultOnEmpty(hosts, hostFile) ==
    IF hostFile = "" THEN hosts
    ELSE LET proxyData == ReadFile(hostFile)
         IN  IF proxyData.err THEN hosts
             ELSE LET parsed == Unmarshal(hostFile, proxyData.data)
                  IN  IF parsed.err \/ parsed.hosts = <<>> THEN hosts ELSE parsed.hosts

\* handleStandardConnection: the catalog of the session, the default one
\* unless the user's host file is read and parsed
StdUserHosts(hosts, hostFile) ==
    IF hostFile = "" THEN hosts
    ELSE LET proxyData == ReadFile(hostFile)
         IN  IF proxyData.err THEN hosts
             ELSE LET parsed == Unmarshal(hostFile, proxyData.data)
                  IN  IF parsed.err THEN hosts ELSE parsed.hosts

\* an encrypted handler that always serves the default catalog
TlsUserHosts_IgnoresUserFile(hosts, hostFile) == hosts

\* handleTLSConnection: the same lines in the other handler
TlsUserHosts(hosts, hostFile) ==
    IF hostFile = "" THEN hosts
    ELSE LET proxyData == ReadFile(hostFile)
         IN  IF proxyData.err THEN hosts
             ELSE LET parsed == Unmarshal(hostFile, proxyData.data)
                  IN  IF parsed.err THEN hosts ELSE parsed.hosts

HandleAuthEnter_RecordsUsername(users, sess, username, password) ==
    LET a == authenticateUser(users, username, password)
    IN  IF a.ok
        THEN [ret |-> TRUE, session |-> authSession(TRUE, username, a.hostFile)]
        ELSE [ret |-> FALSE, session |-> authSession(FALSE, username, "")]

HandleAuthEnter_ReturnsOnFailure(users, sess, username, password) ==
    LET a == authenticateUser(users, username, password)
    IN  IF a.ok
        THEN [ret |-> TRUE, session |-> authSession(TRUE, username, a.hostFile)]
        ELSE [ret |-> TRUE, session |-> sess]

\* HandleAuth on an Enter response: it returns the session only when
\* authenticateUser accepts, otherwise it sets the error field and loops
HandleAuthEnter(users, sess, username, password) ==
    LET a == authenticateUser(users, username, password)
    IN  IF a.ok
        THEN [ret |-> TRUE, session |-> authSession(TRUE, username, a.hostFile)]
        ELSE [ret |-> FALSE, session |-> sess]

\* an install through the shared *Config instead of the handler's copy
InstallCatalog_Shared(k, config, hostFile) ==
    LET hosts == IF k = "std" THEN StdUserHosts(config, hostFile)
                 ELSE TlsUserHosts(config, hostFile)
    IN  [config |-> hosts, userConfig |-> hosts]

\* handleXConnection after authentication: userConfig := *config, and
\* userConfig.Hosts = hosts when the user's host file loads and parses;
\* config is what the shared configuration holds afterwards
InstallCatalog(k, config, hostFile) ==
    LET hosts == IF k = "std" THEN StdUserHosts(config, hostFile)
                 ELSE TlsUserHosts(config, hostFile)
    IN  [config |-> config, userConfig |-> hosts]

\* the handler after HandleAuth returned (authSession, nil)
AfterAuth(sess) ==
    IF ~sess.authenticated
    THEN /\ HandlerReturn("notAuthenticated")
         /\ UNCHANGED <<userHosts, configHosts>>
    ELSE /\ LET r == InstallCatalog(kind, configHosts, sess.hostFile)
            IN  /\ userHosts' = r.userConfig
                /\ configHosts' = r.config
         /\ pc' = "MenuDisplayed"
         /\ UNCHANGED <<exit, connOpen>>

\* HandleAuth: HandleScreen fails, the handler logs and returns
AuthScreenError ==
    /\ pc = "Authenticating"
    /\ HandlerReturn("authError")
    /\ UNCHANGED <<kind, proto, connRD, connWD, negotiated>>
    /\ UNCHANGED <<globalVars, authVars, menuVars, relayVars>>

\* HandleAuth: the PF9 exit key
AuthLogoff ==
    /\ pc = "Authenticating"
    /\ HandlerReturn("pf9")
    /\ UNCHANGED <<kind, proto, connRD, connWD, negotiated>>
    /\ UNCHANGED <<globalVars, authVars, menuVars, relayVars>>

\* HandleAuth: Enter with the two fields of the form
AuthEnter ==
    /\ pc = "Authenticating"
    /\ \E username \in Usernames, password \in Passwords :
          LET r == HandleAuthEnter(authUsers, session, username, password)
              a == authenticateUser(authUsers, username, password)
          IN  /\ lookup' = [username |-> username, password |-> password,
                            ok |-> a.ok, hostFile |-> a.hostFile, called |-> TRUE]
              /\ session' = r.session
              /\ IF r.ret
                 THEN /\ AfterAuth(r.session)
                      /\ errorMsg' = FALSE
                      /\ failedLogins' = 0
                 ELSE /\ errorMsg' = TRUE
                      /\ failedLogins' = Min(failedLogins + 1, MaxFailedLogins)
                      /\ UNCHANGED <<pc, exit, connOpen, userHosts, configHosts>>
    /\ UNCHANGED <<kind, proto, connRD, connWD, negotiated>>
    /\ UNCHANGED <<authUsers, timed, procVars, menuVars, relayVars>>

\* ------------------------------------------------------------ the menu loop

\* handleProxyConnection: HandleScreen of the menu fails; the function
\* returns and what the earlier passes of its loop held is gone
MenuScreenError ==
    /\ pc = "MenuDisplayed"
    /\ HandlerReturn("menuError")
    /\ selection' = <<>>
    /\ selNum' = 0
    /\ protoAtCall' = "none"
    /\ invalidRun' = 0
    /\ result' = "none"
    /\ notices' = 0
    /\ noticeHost' = <<>>
    /\ UNCHANGED <<kind, proto, connRD, connWD, negotiated>>
    /\ UNCHANGED <<globalVars, authVars, relayVars>>

\* handleProxyConnection: an Enter response with a selection.  The host is
\* config.Hosts[num-1]; an index outside the slice is a run-time panic.  The
\* host and the error of the previous pass of the loop are gone
MenuEnter ==
    /\ pc = "MenuDisplayed"
    /\ \E sel \in Selections :
          LET decision == MenuDecision(sel, Len(userHosts))
              num      == Atoi(sel).num
          IN  /\ selection' = sel
              /\ CASE decision = "disconnect" ->
                        /\ HandlerReturn("disconnect")
                        /\ selNum' = 0
                        /\ protoAtCall' = "none"
                        /\ invalidRun' = 0
                   [] decision = "redisplay" ->
                        /\ UNCHANGED <<pc, exit, connOpen>>
                        /\ selNum' = 0
                        /\ protoAtCall' = "none"
                        /\ invalidRun' = Min(invalidRun + 1, MaxInvalid)
                   [] OTHER ->
                        IF num \in 1..Len(userHosts)
                        THEN /\ pc' = "unneg"
                             /\ selNum' = num
                             /\ protoAtCall' = proto
                             /\ invalidRun' = 0
                             /\ UNCHANGED <<exit, connOpen>>
                        ELSE /\ pc' = "Panicked"
                             /\ exit' = "panic"
                             /\ selNum' = num
                             /\ protoAtCall' = "none"
                             /\ invalidRun' = 0
                             /\ UNCHANGED connOpen
    /\ result' = "none"
    /\ notices' = 0
    /\ noticeHost' = <<>>
    /\ UNCHANGED <<kind, proto, connRD, connWD, negotiated>>
    /\ UNCHANGED <<globalVars, authVars, relayVars>>

\* --------------------------------------------------------- the relay engine

RelayReset ==
    /\ target' = "none"
    /\ ctxDone' = FALSE
    /\ errChan' = <<>>
    /\ wg' = 0
    /\ tpc' = [i \in Tasks |-> "none"]
    /\ tleft' = [i \in Tasks |-> 0]
    /\ finalErr' = "none"
    /\ attempts' = 0
    /\ negotiateErr' = FALSE
    /\ sinceCancel' = 0
    /\ timeoutRun' = 0

AfterConnect_Silent(res) ==
    /\ pc' = "MenuDisplayed"
    /\ UNCHANGED <<notices, noticeHost>>

\* handleProxyConnection after connectToHost returned res: an error is shown
\* on one screen naming the host, nil goes straight back to the menu
AfterConnect(res) ==
    IF res # "nil"
    THEN /\ pc' = "ErrorNotice"
         /\ notices' = notices + 1
         /\ noticeHost' = userHosts[selNum].Name
    ELSE /\ pc' = "MenuDisplayed"
         /\ UNCHANGED <<notices, noticeHost>>

\* a connectToHost that returns the un-negotiation error
Unnegotiate_ReturnsOnError ==
    /\ pc = "unneg"
    /\ SetDeadline(UnnegDeadline)
    /\ \E ok \in BOOLEAN :
          IF ok
          THEN /\ proto' = "line"
               /\ pc' = "dial"
               /\ UNCHANGED <<result, notices, noticeHost>>
          ELSE /\ proto' = "unnegFailed"
               /\ result' = "connectFailed"
               /\ AfterConnect("connectFailed")
    /\ selection' = <<>>
    /\ UNCHANGED <<selNum, protoAtCall, invalidRun>>
    /\ UNCHANGED <<kind, exit, connOpen, negotiated>>
    /\ UNCHANGED <<globalVars, authVars, relayVars>>

\* connectToHost: SetDeadline(10 s) and UnNegotiateTelnet; a failure is
\* logged and the call goes on.  The handler's selection string is not
\* used again once the host has been picked
Unnegotiate ==
    /\ pc = "unneg"
    /\ SetDeadline(UnnegDeadline)
    /\ \E ok \in BOOLEAN : proto' = IF ok THEN "line" ELSE "unnegFailed"
    /\ pc' = "dial"
    /\ selection' = <<>>
    /\ UNCHANGED <<selNum, protoAtCall, invalidRun, result, notices, noticeHost>>
    /\ UNCHANGED <<kind, exit, connOpen, negotiated>>
    /\ UNCHANGED <<globalVars, authVars, relayVars>>

\* a connectToHost that returns the dial error without re-negotiating
DialFail_NoRenegotiate ==
    /\ pc = "dial"
    /\ SetDeadline(NoDeadline)
    /\ result' = "connectFailed"
    /\ AfterConnect("connectFailed")
    /\ UNCHANGED <<selection, selNum, invalidRun>>
    /\ protoAtCall' = "none"
    /\ UNCHANGED <<kind, exit, connOpen, proto, negotiated>>
    /\ UNCHANGED <<globalVars, authVars, relayVars>>

\* connectToHost: the dial fails; NegotiateTelnet under a 10 s deadline, its
\* result dropped, the deadline removed, and the error returned
DialFail ==
    /\ pc = "dial"
    /\ \E ok \in BOOLEAN : proto' = IF ok THEN "block" ELSE "negFailed"
    /\ SetDeadline(NoDeadline)
    /\ result' = "connectFailed"
    /\ AfterConnect("connectFailed")
    /\ UNCHANGED <<selection, selNum, invalidRun>>
    /\ protoAtCall' = "none"
    /\ UNCHANGED <<kind, exit, connOpen, negotiated>>
    /\ UNCHANGED <<globalVars, authVars, relayVars>>

\* connectToHost: the dial succeeds; the context, the WaitGroup, the error
\* channel and the two goroutines are created
DialOk ==
    /\ pc = "dial"
    /\ target' = "open"
    /\ ctxDone' = FALSE
    /\ wg' = 2
    /\ errChan' = <<>>
    /\ tpc' = [i \in Tasks |-> "select"]
    /\ pc' = "waitErr"
    /\ UNCHANGED <<tleft, finalErr, attempts, negotiateErr, sinceCancel, timeoutRun>>
    /\ UNCHANGED <<kind, exit, connOpen, proto, connRD, connWD, negotiated>>
    /\ UNCHANGED <<globalVars, authVars, menuVars>>

NoticeOutcome_ReturnOnError(screenOk) == IF screenOk THEN "menu" ELSE "return"

\* handleProxyConnection: the result of the error screen's HandleScreen is
\* not looked at; the loop continues
NoticeOutcome(screenOk) == "menu"

\* handleProxyConnection: the error screen's HandleScreen comes back
ErrorNoticeDone ==
    /\ pc = "ErrorNotice"
    /\ \E screenOk \in BOOLEAN :
          IF NoticeOutcome(screenOk) = "menu"
          THEN /\ pc' = "MenuDisplayed"
               /\ UNCHANGED <<exit, connOpen>>
          ELSE HandlerReturn("noticeError")
    /\ UNCHANGED <<kind, proto, connRD, connWD, negotiated>>
    /\ UNCHANGED <<globalVars, authVars, menuVars, relayVars>>

\* a goroutine that reports and returns without cancel()
Report_NoCancel(i, err) ==
    /\ Len(errChan) < ErrChanCap
    /\ errChan' = Append(errChan, err)
    /\ ctxDone' = ctxDone
    /\ tpc' = [tpc EXCEPT ![i] = "done"]
    /\ tleft' = [tleft EXCEPT ![i] = 0]
    /\ wg' = wg - 1
    /\ timeoutRun' = 0

\* a report on an error channel with room for one value
Report_SingleSlot(i, err) ==
    /\ Len(errChan) < ErrChanCap - 1
    /\ errChan' = Append(errChan, err)
    /\ ctxDone' = TRUE
    /\ tpc' = [tpc EXCEPT ![i] = "done"]
    /\ tleft' = [tleft EXCEPT ![i] = 0]
    /\ wg' = wg - 1
    /\ timeoutRun' = 0

\* a goroutine reports err: errChan <- err; cancel(); return, and the
\* deferred wg.Done()
Report(i, err) ==
    /\ Len(errChan) < ErrChanCap
    /\ errChan' = Append(errChan, err)
    /\ ctxDone' = TRUE
    /\ tpc' = [tpc EXCEPT ![i] = "done"]
    /\ tleft' = [tleft EXCEPT ![i] = 0]
    /\ wg' = wg - 1
    /\ timeoutRun' = 0

\* the connection is one the proxy has closed itself
LocallyClosed(c) == c = "target" /\ target = "closed"

TaskSelect_IgnoresCancel(i) ==
    /\ tpc[i] = "select"
    /\ tpc' = [tpc EXCEPT ![i] = "read"]
    /\ tleft' = [tleft EXCEPT ![i] = ReadSlice]
    /\ connRD' = IF Src(i) = "client" THEN ReadSlice ELSE connRD
    /\ UNCHANGED <<target, ctxDone, errChan, wg, finalErr, attempts, negotiateErr, sinceCancel, timeoutRun>>
    /\ UNCHANGED <<kind, pc, exit, connOpen, proto, connWD, negotiated>>
    /\ UNCHANGED <<globalVars, authVars, menuVars>>

\* top of the goroutine's loop: select on ctx.Done() with a default that sets
\* the short read deadline and reads
TaskSelect(i) ==
    /\ tpc[i] = "select"
    /\ IF ctxDone
       THEN /\ tpc' = [tpc EXCEPT ![i] = "done"]
            /\ wg' = wg - 1
            /\ UNCHANGED <<tleft, connRD>>
       ELSE /\ tpc' = [tpc EXCEPT ![i] = "read"]
            /\ tleft' = [tleft EXCEPT ![i] = ReadSlice]
            /\ connRD' = IF Src(i) = "client" THEN ReadSlice ELSE connRD
            /\ UNCHANGED wg
    /\ UNCHANGED <<target, ctxDone, errChan, finalErr, attempts, negotiateErr, sinceCancel, timeoutRun>>
    /\ UNCHANGED <<kind, pc, exit, connOpen, proto, connWD, negotiated>>
    /\ UNCHANGED <<globalVars, authVars, menuVars>>

\* a goroutine that treats the timeout of Read like any other error
TaskReadTimeout_Reports(i) ==
    /\ tpc[i] = "read"
    /\ ~LocallyClosed(Src(i))
    /\ timed => tleft[i] = 0
    /\ Report(i, "timeout")
    /\ UNCHANGED <<target, finalErr, attempts, negotiateErr, sinceCancel>>
    /\ UNCHANGED handlerVars
    /\ UNCHANGED <<globalVars, authVars, menuVars>>

\* Read returns a timeout error: continue
TaskReadTimeout(i) ==
    /\ tpc[i] = "read"
    /\ ~LocallyClosed(Src(i))
    /\ timed => tleft[i] = 0
    /\ tpc' = [tpc EXCEPT ![i] = "select"]
    /\ tleft' = [tleft EXCEPT ![i] = 0]
    /\ timeoutRun' = IF ctxDone THEN timeoutRun ELSE Min(timeoutRun + 1, MaxTimeouts)
    /\ UNCHANGED <<target, ctxDone, errChan, wg, finalErr, attempts, negotiateErr, sinceCancel>>
    /\ UNCHANGED handlerVars
    /\ UNCHANGED <<globalVars, authVars, menuVars>>

\* Read returns n > 0 bytes: the write deadline is set and Write is called
TaskReadData(i) ==
    /\ tpc[i] = "read"
    /\ ~LocallyClosed(Src(i))
    /\ tpc' = [tpc EXCEPT ![i] = "write"]
    /\ tleft' = [tleft EXCEPT ![i] = WriteTimeout]
    /\ connWD' = IF Dst(i) = "client" THEN WriteTimeout ELSE connWD
    /\ timeoutRun' = 0
    /\ UNCHANGED <<target, ctxDone, errChan, wg, finalErr, attempts, negotiateErr, sinceCancel>>
    /\ UNCHANGED <<kind, pc, exit, connOpen, proto, connRD, negotiated>>
    /\ UNCHANGED <<globalVars, authVars, menuVars>>

\* Read returns an error that is no timeout: the peer closed its side, or
\* the engine has closed the connection
TaskReadError(i) ==
    /\ tpc[i] = "read"
    /\ \E err \in IF LocallyClosed(Src(i)) THEN {"closed"} ELSE {"EOF"} :
          Report(i, err)
    /\ UNCHANGED <<target, finalErr, attempts, negotiateErr, sinceCancel>>
    /\ UNCHANGED handlerVars
    /\ UNCHANGED <<globalVars, authVars, menuVars>>

\* Write returns without error
TaskWriteOk(i) ==
    /\ tpc[i] = "write"
    /\ ~LocallyClosed(Dst(i))
    /\ tpc' = [tpc EXCEPT ![i] = "select"]
    /\ tleft' = [tleft EXCEPT ![i] = 0]
    /\ UNCHANGED <<target, ctxDone, errChan, wg, finalErr, attempts, negotiateErr, sinceCancel, timeoutRun>>
    /\ UNCHANGED handlerVars
    /\ UNCHANGED <<globalVars, authVars, menuVars>>

\* a goroutine that treats the expiry of the write deadline like that of the
\* read deadline: back to the top of its loop
TaskWriteError_TimeoutRetries(i) ==
    /\ tpc[i] = "write"
    /\ \E err \in IF LocallyClosed(Dst(i)) THEN {"closed"}
                  ELSE {"reset"} \cup (IF timed /\ tleft[i] > 0 THEN {} ELSE {"timeout"}) :
          IF err = "timeout"
          THEN /\ tpc' = [tpc EXCEPT ![i] = "select"]
               /\ tleft' = [tleft EXCEPT ![i] = 0]
               /\ UNCHANGED <<ctxDone, errChan, wg, timeoutRun>>
          ELSE Report(i, err)
    /\ UNCHANGED <<target, finalErr, attempts, negotiateErr, sinceCancel>>
    /\ UNCHANGED handlerVars
    /\ UNCHANGED <<globalVars, authVars, menuVars>>

\* Write returns an error: the 5 s write deadline passed, the peer reset the
\* connection, or the engine has closed it
TaskWriteError(i) ==
    /\ tpc[i] = "write"
    /\ \E err \in IF LocallyClosed(Dst(i)) THEN {"closed"}
                  ELSE {"reset"} \cup (IF timed /\ tleft[i] > 0 THEN {} ELSE {"timeout"}) :
          Report(i, err)
    /\ UNCHANGED <<target, finalErr, attempts, negotiateErr, sinceCancel>>
    /\ UNCHANGED handlerVars
    /\ UNCHANGED <<globalVars, authVars, menuVars>>

\* the goroutine client -> target
ForwardClientToTarget ==
    \/ TaskSelect("c2t")
    \/ TaskReadTimeout("c2t")
    \/ TaskReadData("c2t")
    \/ TaskReadError("c2t")
    \/ TaskWriteOk("c2t")
    \/ TaskWriteError("c2t")

\* the goroutine target -> client
ForwardTargetToClient ==
    \/ TaskSelect("t2c")
    \/ TaskReadTimeout("t2c")
    \/ TaskReadData("t2c")
    \/ TaskReadError("t2c")
    \/ TaskWriteOk("t2c")
    \/ TaskWriteError("t2c")

\* connectToHost: finalErr = <-errChan, then cancel()
RecvErr ==
    /\ pc = "waitErr"
    /\ errChan # <<>>
    /\ finalErr' = Head(errChan)
    /\ errChan' = Tail(errChan)
    /\ ctxDone' = TRUE
    /\ pc' = "closeTarget"
    /\ UNCHANGED <<target, wg, tpc, tleft, attempts, negotiateErr, sinceCancel, timeoutRun>>
    /\ UNCHANGED <<kind, exit, connOpen, proto, connRD, connWD, negotiated>>
    /\ UNCHANGED <<globalVars, authVars, menuVars>>

\* a connectToHost that goes on to wg.Wait() without closing targetConn
CloseTarget_Skipped ==
    /\ pc = "closeTarget"
    /\ pc' = "wgWait"
    /\ UNCHANGED relayVars
    /\ UNCHANGED <<kind, exit, connOpen, proto, connRD, connWD, negotiated>>
    /\ UNCHANGED <<globalVars, authVars, menuVars>>

\* connectToHost: targetConn.Close()
CloseTarget ==
    /\ pc = "closeTarget"
    /\ target' = "closed"
    /\ pc' = "wgWait"
    /\ UNCHANGED <<ctxDone, errChan, wg, tpc, tleft, finalErr, attempts, negotiateErr, sinceCancel, timeoutRun>>
    /\ UNCHANGED <<kind, exit, connOpen, proto, connRD, connWD, negotiated>>
    /\ UNCHANGED <<globalVars, authVars, menuVars>>

WgWait_NoBarrier ==
    /\ pc = "wgWait"
    /\ pc' = "reset"
    /\ UNCHANGED relayVars
    /\ UNCHANGED <<kind, exit, connOpen, proto, connRD, connWD, negotiated>>
    /\ UNCHANGED <<globalVars, authVars, menuVars>>

\* connectToHost: wg.Wait() returns when the counter is zero
WgWait ==
    /\ pc = "wgWait"
    /\ wg = 0
    /\ pc' = "reset"
    /\ UNCHANGED relayVars
    /\ UNCHANGED <<kind, exit, connOpen, proto, connRD, connWD, negotiated>>
    /\ UNCHANGED <<globalVars, authVars, menuVars>>

ResetClient_Closes ==
    /\ pc = "reset"
    /\ pc' = "reneg"
    /\ attempts' = 0
    /\ connOpen' = FALSE
    /\ UNCHANGED <<target, ctxDone, errChan, wg, tpc, tleft, finalErr, negotiateErr, sinceCancel, timeoutRun>>
    /\ UNCHANGED <<kind, exit, proto, connRD, connWD, negotiated>>
    /\ UNCHANGED <<globalVars, authVars, menuVars>>

\* connectToHost: SetLinger(0) on the client conn and the 500 ms settle sleep
ResetClient ==
    /\ pc = "reset"
    /\ pc' = "reneg"
    /\ attempts' = 0
    /\ UNCHANGED <<target, ctxDone, errChan, wg, tpc, tleft, finalErr, negotiateErr, sinceCancel, timeoutRun>>
    /\ UNCHANGED <<kind, exit, connOpen, proto, connRD, connWD, negotiated>>
    /\ UNCHANGED <<globalVars, authVars, menuVars>>

Renegotiate_SingleAttempt ==
    /\ pc = "reneg"
    /\ attempts < MaxRenegAttempts
    /\ \E ok \in BOOLEAN :
          /\ proto' = IF ok THEN "block" ELSE "negFailed"
          /\ negotiateErr' = ~ok
          /\ SetDeadline(IF ok THEN NoDeadline ELSE RenegDeadline)
          /\ attempts' = IF ok THEN attempts ELSE attempts + 1
          /\ pc' = "ret"
    /\ UNCHANGED <<target, ctxDone, errChan, wg, tpc, tleft, finalErr, sinceCancel, timeoutRun>>
    /\ UNCHANGED <<kind, exit, connOpen, negotiated>>
    /\ UNCHANGED <<globalVars, authVars, menuVars>>

\* connectToHost: one pass of the re-negotiation loop
Renegotiate ==
    /\ pc = "reneg"
    /\ attempts < MaxRenegAttempts
    /\ \E ok \in BOOLEAN :
          IF ok
          THEN /\ proto' = "block"
               /\ negotiateErr' = FALSE
               /\ SetDeadline(NoDeadline)
               /\ pc' = "ret"
               /\ UNCHANGED attempts
          ELSE /\ proto' = "negFailed"
               /\ negotiateErr' = TRUE
               /\ SetDeadline(RenegDeadline)
               /\ attempts' = attempts + 1
               /\ pc' = IF attempts + 1 < MaxRenegAttempts THEN "reneg" ELSE "ret"
    /\ UNCHANGED <<target, ctxDone, errChan, wg, tpc, tleft, finalErr, sinceCancel, timeoutRun>>
    /\ UNCHANGED <<kind, exit, connOpen, negotiated>>
    /\ UNCHANGED <<globalVars, authVars, menuVars>>

ConnectResult_ForwardErr(ferr, nerr) ==
    IF ferr \notin {"none", "EOF"} \/ nerr THEN "relayError" ELSE "nil"

\* connectToHost after the relay: always return nil
ConnectResult(ferr, nerr) == "nil"

\* a connectToHost that returns without the final SetDeadline(time.Time{})
ConnectReturn_KeepsDeadline ==
    /\ pc = "ret"
    /\ UNCHANGED <<connRD, connWD>>
    /\ result' = ConnectResult(finalErr, negotiateErr)
    /\ AfterConnect(ConnectResult(finalErr, negotiateErr))
    /\ RelayReset
    /\ UNCHANGED <<selection, selNum, invalidRun>>
    /\ protoAtCall' = "none"
    /\ UNCHANGED <<kind, exit, connOpen, proto, negotiated>>
    /\ UNCHANGED <<globalVars, authVars>>

\* connectToHost: SetDeadline(time.Time{}), return, and the deferred cancel()
ConnectReturn ==
    /\ pc = "ret"
    /\ SetDeadline(NoDeadline)
    /\ result' = ConnectResult(finalErr, negotiateErr)
    /\ AfterConnect(ConnectResult(finalErr, negotiateErr))
    /\ RelayReset
    /\ UNCHANGED <<selection, selNum, invalidRun>>
    /\ protoAtCall' = "none"
    /\ UNCHANGED <<kind, exit, connOpen, proto, negotiated>>
    /\ UNCHANGED <<globalVars, authVars>>

\* the goroutines in a pending read or write
Waiting == {i \in Tasks : tpc[i] \in {"read", "write"}}

\* time passes up to the next deadline of a pending read or write; whatever
\* can run without waiting (a goroutine at its select, an operation on a
\* closed connection, the engine's receive and its Close) does so first
Tick ==
    /\ timed
    /\ Waiting # {}
    /\ \A i \in Tasks : tpc[i] # "select"
    /\ ~(pc = "waitErr" /\ errChan # <<>>)
    /\ pc # "closeTarget"
    /\ \A i \in Waiting :
          /\ tleft[i] > 0
          /\ ~LocallyClosed(IF tpc[i] = "read" THEN Src(i) ELSE Dst(i))
    /\ LET d == CHOOSE x \in {tleft[i] : i \in Waiting} :
                    \A y \in {tleft[i] : i \in Waiting} : x <= y
           cap == ReadSlice + WriteTimeout + ReadSlice
       IN  /\ tleft' = [i \in Tasks |-> IF i \in Waiting THEN tleft[i] - d ELSE tleft[i]]
           /\ sinceCancel' = IF ~ctxDone THEN 0
                             ELSE IF sinceCancel + d > cap THEN cap ELSE sinceCancel + d
    /\ UNCHANGED <<target, ctxDone, errChan, wg, tpc, finalErr, attempts, negotiateErr, timeoutRun>>
    /\ UNCHANGED handlerVars
    /\ UNCHANGED <<globalVars, authVars, menuVars>>

\* --------------------------------- the process and its listener supervisors

\* no connection has been accepted: the handler's locals at their zero values
NoConn ==
    /\ kind = "std"
    /\ pc = "Unaccepted"
    /\ exit = "none"
    /\ connOpen = FALSE
    /\ proto = "fresh"
    /\ connRD = NoDeadline
    /\ connWD = NoDeadline
    /\ negotiated = FALSE
    /\ lookup = NoLookup
    /\ session = EmptySession
    /\ errorMsg = FALSE
    /\ failedLogins = 0
    /\ userHosts = <<>>
    /\ selection = <<>>
    /\ selNum = 0
    /\ protoAtCall = "none"
    /\ invalidRun = 0
    /\ result = "none"
    /\ notices = 0
    /\ noticeHost = <<>>
    /\ RelayIdle

\* main: loadConfig; log.Fatalf when it fails
MainLoadConfig ==
    /\ mainPc = "loadConfig"
    /\ \E ok \in BOOLEAN :
          IF ok
          THEN /\ mainPc' = "loadAuth"
               /\ configHosts' = Catalog("default", 1)
               /\ tlsWanted' \in BOOLEAN
          ELSE /\ mainPc' = "exited"
               /\ UNCHANGED <<configHosts, tlsWanted>>
    /\ UNCHANGED <<authUsers, timed, tlsFiles, usersFile, peers, retries, listeners, sup, ran, wait, lastErr, sinceFail>>
    /\ UNCHANGED <<handlerVars, authVars, menuVars, relayVars>>

\* main: LoadAuthConfig; log.Fatalf when it fails
MainLoadAuth ==
    /\ mainPc = "loadAuth"
    /\ LET r == LoadAuthConfig(usersFile, authUsers)
       IN  /\ authUsers' = r.users
           /\ mainPc' = IF r.err = "none" THEN "start" ELSE "exited"
    /\ UNCHANGED <<configHosts, timed, tlsWanted, tlsFiles, usersFile, peers, retries, listeners, sup, ran, wait, lastErr, sinceFail>>
    /\ UNCHANGED <<handlerVars, authVars, menuVars, relayVars>>

MainStartServers_TlsInline ==
    /\ mainPc = "start"
    /\ sup' = [k \in Kinds |-> IF k = "tls" /\ tlsWanted THEN "precheck" ELSE "notStarted"]
    /\ mainPc' = "running"
    /\ UNCHANGED <<authUsers, configHosts, timed, tlsWanted, tlsFiles, usersFile, peers, retries, listeners, ran, wait, lastErr, sinceFail>>
    /\ UNCHANGED <<handlerVars, authVars, menuVars, relayVars>>

\* main: go startTLSServer when TLS is enabled with a port, go
\* startStandardServer, then select {}
MainStartServers ==
    /\ mainPc = "start"
    /\ sup' = [k \in Kinds |-> IF k = "std" THEN "loopTop"
                               ELSE IF tlsWanted THEN "precheck" ELSE "notStarted"]
    /\ mainPc' = "running"
    /\ UNCHANGED <<authUsers, configHosts, timed, tlsWanted, tlsFiles, usersFile, peers, retries, listeners, ran, wait, lastErr, sinceFail>>
    /\ UNCHANGED <<handlerVars, authVars, menuVars, relayVars>>

TlsFilesExist_CertOnly(files) == files.cert # "missing"

\* startTLSServer: os.Stat of the certificate and of the key does not report
\* IsNotExist
TlsFilesExist(files) == files.cert # "missing" /\ files.key # "missing"

\* runTLSServer: tls.LoadX509KeyPair succeeds
TlsPairLoads(files) == files.cert = "ok" /\ files.key = "ok"

\* startTLSServer before its loop: return when a file does not exist
TlsPrecheck ==
    /\ mainPc = "running"
    /\ sup["tls"] = "precheck"
    /\ sup' = [sup EXCEPT !["tls"] = IF TlsFilesExist(tlsFiles) THEN "loopTop" ELSE "returned"]
    /\ UNCHANGED <<authUsers, configHosts, timed, mainPc, tlsWanted, tlsFiles, usersFile, peers, retries, listeners, ran, wait, lastErr, sinceFail>>
    /\ UNCHANGED <<handlerVars, authVars, menuVars, relayVars>>

\* startXServer, top of the loop: startTime := time.Now() and the call of
\* runXServer
CycleStart(k) ==
    /\ mainPc = "running"
    /\ sup[k] = "loopTop"
    /\ sup' = [sup EXCEPT ![k] = "run"]
    /\ ran' = [ran EXCEPT ![k] = 0]
    /\ lastErr' = [lastErr EXCEPT ![k] = "none"]
    /\ UNCHANGED <<authUsers, configHosts, timed, mainPc, tlsWanted, tlsFiles, usersFile, peers, retries, listeners, wait, sinceFail>>
    /\ UNCHANGED <<handlerVars, authVars, menuVars, relayVars>>

RestartDecision_AtLeast(d) == IF d >= HealthyRun THEN 0 ELSE RestartDelay

\* startXServer: the sleep after a cycle that ended with an error after d
RestartDecision(d) == IF d > HealthyRun THEN 0 ELSE RestartDelay

\* an accept loop that returns nil when Accept fails, as a closed listener
\* would be treated by a loop with a shutdown path
CycleResult_NilOnAccept(cause) == IF cause = "accept" THEN "none" ELSE cause

\* what runXServer returns for each way it ends: the key pair does not load,
\* the listener cannot be opened, Accept fails; each is a fmt.Errorf
CycleResult(cause) == cause

\* startXServer: the branch taken on the value runXServer returned, as the
\* time slept before the next cycle
SupervisorWait(err, d) == IF err = "none" THEN ShutdownDelay ELSE RestartDecision(d)

RunFailed_Returns(k, err) ==
    /\ lastErr' = [lastErr EXCEPT ![k] = err]
    /\ sinceFail' = [sinceFail EXCEPT ![k] = 0]
    /\ sup' = [sup EXCEPT ![k] = "returned"]
    /\ UNCHANGED <<mainPc, wait>>

RunFailed_Fatal(k, err) ==
    /\ mainPc' = "exited"
    /\ lastErr' = [lastErr EXCEPT ![k] = err]
    /\ UNCHANGED <<sup, wait, sinceFail>>

\* startXServer: runXServer returned err; log it, and restart at once or
\* sleep first
RunFailed(k, err) ==
    /\ lastErr' = [lastErr EXCEPT ![k] = CycleResult(err)]
    /\ sinceFail' = [sinceFail EXCEPT ![k] = 0]
    /\ wait' = [wait EXCEPT ![k] = SupervisorWait(CycleResult(err), ran[k])]
    /\ sup' = [sup EXCEPT ![k] = IF SupervisorWait(CycleResult(err), ran[k]) = 0
                                 THEN "loopTop" ELSE "sleep"]
    /\ UNCHANGED mainPc

\* a runXServer without the deferred listener.Close()
ListenerAfterReturn_Leaks(n) == n

\* runXServer returns from its accept loop: the deferred listener.Close()
\* runs, n being the listeners the supervisor had open
ListenerAfterReturn(n) == n - 1

\* runXServer up to its accept loop: runTLSServer loads the key pair first;
\* then the listener is opened, which can fail
RunSetup(k) ==
    /\ mainPc = "running"
    /\ sup[k] = "run"
    /\ IF k = "tls" /\ ~TlsPairLoads(tlsFiles)
       THEN /\ RunFailed(k, "cert")
            /\ UNCHANGED listeners
       ELSE \E ok \in (IF listeners[k] = 0 THEN BOOLEAN ELSE {FALSE}) :
               IF ok
               THEN /\ sup' = [sup EXCEPT ![k] = "accept"]
                    /\ listeners' = [listeners EXCEPT ![k] = @ + 1]
                    /\ UNCHANGED <<mainPc, wait, lastErr, sinceFail>>
               ELSE /\ RunFailed(k, "listen")
                    /\ UNCHANGED listeners
    /\ UNCHANGED <<authUsers, configHosts, timed, tlsWanted, tlsFiles, usersFile, peers, retries, ran>>
    /\ UNCHANGED <<handlerVars, authVars, menuVars, relayVars>>

\* runXServer: Accept returns a connection and its handler is started with
\* go; the model follows one connection at a time, the one accepted when no
\* other is being followed
AcceptConn(k) ==
    /\ mainPc = "running"
    /\ sup[k] = "accept"
    /\ pc \in {"Unaccepted", "Closed"}
    /\ kind' = k
    /\ pc' = "Accepted"
    /\ exit' = "none"
    /\ connOpen' = TRUE
    /\ proto' = "fresh"
    /\ SetDeadline(NoDeadline)
    /\ negotiated' = FALSE
    /\ lookup' = NoLookup
    /\ session' = EmptySession
    /\ errorMsg' = FALSE
    /\ failedLogins' = 0
    /\ userHosts' = <<>>
    /\ selection' = <<>>
    /\ selNum' = 0
    /\ protoAtCall' = "none"
    /\ invalidRun' = 0
    /\ result' = "none"
    /\ notices' = 0
    /\ noticeHost' = <<>>
    /\ RelayReset
    /\ UNCHANGED globalVars

\* an accept loop whose end also ends the sessions it has started
AcceptError_DropsSessions(k) ==
    /\ mainPc = "running"
    /\ sup[k] = "accept"
    /\ RunFailed(k, "accept")
    /\ listeners' = [listeners EXCEPT ![k] = ListenerAfterReturn(@)]
    /\ peers' = SelectSeq(peers, LAMBDA p : p.kind # k)
    /\ UNCHANGED <<authUsers, configHosts, timed, tlsWanted, tlsFiles, usersFile, retries, ran>>
    /\ UNCHANGED <<handlerVars, authVars, menuVars, relayVars>>

\* runXServer: Accept returns an error that ends the accept loop
AcceptError(k) ==
    /\ mainPc = "running"
    /\ sup[k] = "accept"
    /\ RunFailed(k, "accept")
    /\ listeners' = [listeners EXCEPT ![k] = ListenerAfterReturn(@)]
    /\ UNCHANGED <<authUsers, configHosts, timed, tlsWanted, tlsFiles, usersFile, peers, retries, ran>>
    /\ UNCHANGED <<handlerVars, authVars, menuVars, relayVars>>

\* a deadline on the Accept of both listeners
AcceptDeadline_Both(k) == AcceptPeriod

\* the deadline Accept is called under: runStandardServer sets one on the
\* TCP listener before every Accept, runTLSServer sets none
AcceptDeadline(k) == IF k = "std" THEN AcceptPeriod ELSE NoDeadline

\* runStandardServer: the deadline of Accept expires, netErr.Timeout() holds
\* and the loop continues
AcceptTimeout(k) ==
    /\ mainPc = "running"
    /\ sup[k] = "accept"
    /\ AcceptDeadline(k) # NoDeadline
    /\ retries' = [retries EXCEPT ![k] = Min(retries[k] + 1, MaxRetries)]
    /\ UNCHANGED <<authUsers, configHosts, timed, mainPc, tlsWanted, tlsFiles, usersFile, peers, listeners, sup, ran, wait, lastErr, sinceFail>>
    /\ UNCHANGED <<handlerVars, authVars, menuVars, relayVars>>

\* Accept returns an error that is Temporary() and not a timeout:
\* runTLSServer sleeps 100 ms and continues, runStandardServer returns it
AcceptTemporary(k) ==
    /\ mainPc = "running"
    /\ sup[k] = "accept"
    /\ IF k = "tls"
       THEN /\ retries' = [retries EXCEPT ![k] = Min(retries[k] + 1, MaxRetries)]
            /\ UNCHANGED <<mainPc, sup, wait, lastErr, sinceFail, listeners>>
       ELSE /\ RunFailed(k, "accept")
            /\ listeners' = [listeners EXCEPT ![k] = ListenerAfterReturn(@)]
            /\ UNCHANGED retries
    /\ UNCHANGED <<authUsers, configHosts, timed, tlsWanted, tlsFiles, usersFile, peers, ran>>
    /\ UNCHANGED <<handlerVars, authVars, menuVars, relayVars>>

\* startXServer: time.Sleep returns
SleepEnd(k) ==
    /\ mainPc = "running"
    /\ sup[k] = "sleep"
    /\ timed => wait[k] = 0
    /\ sup' = [sup EXCEPT ![k] = "loopTop"]
    /\ wait' = [wait EXCEPT ![k] = 0]
    /\ UNCHANGED <<authUsers, configHosts, timed, mainPc, tlsWanted, tlsFiles, usersFile, peers, retries, listeners, ran, lastErr, sinceFail>>
    /\ UNCHANGED <<handlerVars, authVars, menuVars, relayVars>>

\* ---------------------------------------------------------------------------
\* the sessions beside the followed one.  Each runs the same handler in its
\* own goroutine; of these the model keeps the endpoint kind, the stage the
\* handler is blocked at, and the Hosts of its userConfig

Peer(k, stage, hosts) == [kind |-> k, stage |-> stage, hosts |-> hosts]

RemoveAt(q, i) == [j \in 1..(Len(q) - 1) |-> IF j < i THEN q[j] ELSE q[j + 1]]

\* an accept loop that calls the handler instead of starting it with go
Dispatch_Inline(k) == "handle"

\* runXServer after Accept returned a connection: go handleXConnection(conn,
\* config) starts the handler and the loop is back at Accept
Dispatch(k) == "accept"

PeerFrame ==
    /\ UNCHANGED <<authUsers, timed, mainPc, tlsWanted, tlsFiles, usersFile, retries, listeners, ran, wait, lastErr, sinceFail>>
    /\ UNCHANGED <<handlerVars, authVars, menuVars, relayVars>>

\* runXServer: Accept returns a connection while other sessions are running
AcceptPeer(k) ==
    /\ mainPc = "running"
    /\ sup[k] = "accept"
    /\ Len(peers) < MaxPeers
    /\ peers' = Append(peers, Peer(k, "Handshaking", <<>>))
    /\ sup' = [sup EXCEPT ![k] = Dispatch(k)]
    /\ UNCHANGED configHosts
    /\ PeerFrame

\* handleXConnection: NegotiateTelnet succeeds
PeerNegotiate(i) ==
    /\ i \in 1..Len(peers)
    /\ peers[i].stage = "Handshaking"
    /\ peers' = [peers EXCEPT ![i].stage = "Authenticating"]
    /\ UNCHANGED <<configHosts, sup>>
    /\ PeerFrame

\* handleXConnection: HandleAuth returns an authenticated session of a stored
\* user and the catalog of the session is installed
PeerAuth(i) ==
    /\ i \in 1..Len(peers)
    /\ peers[i].stage = "Authenticating"
    /\ \E n \in 1..Len(authUsers) :
          LET r == InstallCatalog(peers[i].kind, configHosts, authUsers[n].HostFile)
          IN  /\ peers' = [peers EXCEPT ![i] = Peer(peers[i].kind, "MenuDisplayed", r.userConfig)]
              /\ configHosts' = r.config
    /\ UNCHANGED sup
    /\ PeerFrame

\* handleProxyConnection: a host is selected and connectToHost relays
PeerConnect(i) ==
    /\ i \in 1..Len(peers)
    /\ peers[i].stage = "MenuDisplayed"
    /\ peers[i].hosts # <<>>
    /\ peers' = [peers EXCEPT ![i].stage = "Relaying"]
    /\ UNCHANGED <<configHosts, sup>>
    /\ PeerFrame

\* connectToHost returns and the menu is shown again
PeerRelayEnd(i) ==
    /\ i \in 1..Len(peers)
    /\ peers[i].stage = "Relaying"
    /\ peers' = [peers EXCEPT ![i].stage = "MenuDisplayed"]
    /\ UNCHANGED <<configHosts, sup>>
    /\ PeerFrame

\* the handler returns: failed negotiation, logoff or screen error at the
\* login form, disconnect or screen error at the menu
PeerClose(i) ==
    /\ i \in 1..Len(peers)
    /\ peers[i].stage \in {"Handshaking", "Authenticating", "MenuDisplayed"}
    /\ peers' = RemoveAt(peers, i)
    /\ sup' = [k \in Kinds |-> IF sup[k] = "handle" /\ peers[i].kind = k THEN "accept" ELSE sup[k]]
    /\ UNCHANGED configHosts
    /\ PeerFrame

PeerStep(i) ==
    \/ PeerNegotiate(i)
    \/ PeerAuth(i)
    \/ PeerConnect(i)
    \/ PeerRelayEnd(i)
    \/ PeerClose(i)

\* the positions of a supervisor inside its restart loop
LoopPcs == {"loopTop", "run", "accept", "sleep"}

\* the environment: the certificate or the key file is replaced or removed
\* after startTLSServer has entered its loop
FilesChange ==
    /\ mainPc = "running"
    /\ sup["tls"] \in LoopPcs
    /\ tlsFiles' \in TlsFileStates \ {tlsFiles}
    /\ UNCHANGED <<authUsers, configHosts, timed, mainPc, tlsWanted, usersFile, peers, retries, listeners, sup, ran, wait, lastErr, sinceFail>>
    /\ UNCHANGED <<handlerVars, authVars, menuVars, relayVars>>

\* RestartDelay seconds pass: the run time of every supervisor in its accept
\* loop grows (it is followed up to just past HealthyRun), every pending
\* sleep comes closer to its end; loading the key pair and opening the
\* listener return without waiting and come first
SupTick ==
    /\ timed
    /\ mainPc = "running"
    /\ \A k \in Kinds : sup[k] # "run"
    /\ ran' = [k \in Kinds |->
                 IF sup[k] = "accept"
                 THEN Min(ran[k] + RestartDelay, HealthyRun + RestartDelay)
                 ELSE ran[k]]
    /\ wait' = [k \in Kinds |->
                 IF sup[k] = "sleep" /\ wait[k] > 0 THEN wait[k] - RestartDelay ELSE wait[k]]
    /\ sinceFail' = [k \in Kinds |->
                 IF sup[k] = "sleep"
                 THEN Min(sinceFail[k] + RestartDelay, RestartDelay)
                 ELSE sinceFail[k]]
    /\ UNCHANGED <<authUsers, configHosts, timed, mainPc, tlsWanted, tlsFiles, usersFile, peers, retries, listeners, sup, lastErr>>
    /\ UNCHANGED <<handlerVars, authVars, menuVars, relayVars>>

\* ----------------------------------------------------------- specifications

Next ==
    \/ StdSetDeadline
    \/ TlsSetDeadline
    \/ StdNegotiate
    \/ TlsNegotiate
    \/ AuthScreenError
    \/ AuthLogoff
    \/ AuthEnter
    \/ MenuScreenError
    \/ MenuEnter
    \/ Unnegotiate
    \/ DialFail
    \/ DialOk
    \/ ErrorNoticeDone
    \/ ForwardClientToTarget
    \/ ForwardTargetToClient
    \/ RecvErr
    \/ CloseTarget
    \/ WgWait
    \/ ResetClient
    \/ Renegotiate
    \/ ConnectReturn

Spec == Init /\ [][Next]_vars

\* the relay with time: one credential record, one host
TimedInit ==
    /\ ProcRunning
    /\ authUsers = <<User("u1", "p1", "")>>
    /\ configHosts = Catalog("default", 1)
    /\ timed = TRUE
    /\ InitConn

TimedNext == Next \/ Tick

TimedSpec == TimedInit /\ [][TimedNext]_vars

\* every runnable goroutine is scheduled, every deadline passes, and the
\* engine's own steps after the error are taken
FairTimedSpec ==
    /\ TimedSpec
    /\ WF_vars(ForwardClientToTarget)
    /\ WF_vars(ForwardTargetToClient)
    /\ WF_vars(Tick)
    /\ WF_vars(RecvErr)
    /\ WF_vars(CloseTarget)
    /\ WF_vars(WgWait)

\* the menu over catalogs of every size class: an empty default catalog or
\* one with a host numbered 99, and a user with a two-host catalog
LargeInit ==
    /\ ProcRunning
    /\ authUsers = <<User("u1", "p1", ""), User("u2", "p2", "user_ok")>>
    /\ configHosts \in {Catalog("default", 0), Catalog("default", MaxHosts)}
    /\ timed = FALSE
    /\ InitConn

LargeSpec == LargeInit /\ [][Next]_vars

\* the login form over every credential list LoadAuthConfig can have stored:
\* one record or more, each with a non-empty username and password
LookupInit ==
    /\ ProcRunning
    /\ authUsers \in LookupLists \ {<<>>}
    /\ configHosts = Catalog("default", 1)
    /\ timed = FALSE
    /\ kind \in {"std", "tls"}
    /\ pc = "Authenticating"
    /\ exit = "none"
    /\ connOpen = TRUE
    /\ proto = "block"
    /\ connRD = NoDeadline
    /\ connWD = NoDeadline
    /\ negotiated = TRUE
    /\ lookup = NoLookup
    /\ session = EmptySession
    /\ errorMsg = FALSE
    /\ failedLogins = 0
    /\ userHosts = <<>>
    /\ selection = <<>>
    /\ selNum = 0
    /\ protoAtCall = "none"
    /\ invalidRun = 0
    /\ result = "none"
    /\ notices = 0
    /\ noticeHost = <<>>
    /\ RelayIdle

LookupSpec == LookupInit /\ [][AuthEnter]_vars


\* the two listener supervisors with time, from the moment main starts them
SupInit ==
    /\ mainPc = "start"
    /\ usersFile = GoodUsersFile
    /\ peers = <<>>
    /\ retries = [k \in Kinds |-> 0]
    /\ listeners = [k \in Kinds |-> 0]
    /\ tlsWanted \in BOOLEAN
    /\ tlsFiles \in TlsFileStates
    /\ sup = [k \in Kinds |-> "notStarted"]
    /\ ran = [k \in Kinds |-> 0]
    /\ wait = [k \in Kinds |-> 0]
    /\ lastErr = [k \in Kinds |-> "none"]
    /\ sinceFail = [k \in Kinds |-> 0]
    /\ authUsers = <<User("u1", "p1", "")>>
    /\ configHosts = Catalog("default", 1)
    /\ timed = TRUE
    /\ NoConn

SupStep(k) ==
    \/ CycleStart(k)
    \/ RunSetup(k)
    \/ AcceptConn(k)
    \/ AcceptError(k)
    \/ SleepEnd(k)

SupNext ==
    \/ MainStartServers
    \/ TlsPrecheck
    \/ \E k \in Kinds : SupStep(k)
    \/ FilesChange
    \/ SupTick

SupSpec == SupInit /\ [][SupNext]_vars

\* the supervisor goroutines are scheduled and time passes
FairSupSpec ==
    /\ SupSpec
    /\ WF_vars(SupTick)
    /\ \A k \in Kinds :
          WF_vars(CycleStart(k)) /\ WF_vars(RunSetup(k)) /\ WF_vars(SleepEnd(k))

\* the whole process, from the start of main, with one connection followed
ProcessInit ==
    /\ mainPc = "loadConfig"
    /\ usersFile \in {GoodUsersFile, [GoodUsersFile EXCEPT !.readErr = TRUE]}
    /\ peers = <<>>
    /\ retries = [k \in Kinds |-> 0]
    /\ listeners = [k \in Kinds |-> 0]
    /\ tlsWanted = FALSE
    /\ tlsFiles = [cert |-> "ok", key |-> "ok"]
    /\ sup = [k \in Kinds |-> "notStarted"]
    /\ ran = [k \in Kinds |-> 0]
    /\ wait = [k \in Kinds |-> 0]
    /\ lastErr = [k \in Kinds |-> "none"]
    /\ sinceFail = [k \in Kinds |-> 0]
    /\ authUsers = <<>>
    /\ configHosts = <<>>
    /\ timed = FALSE
    /\ NoConn

ProcessNext ==
    \/ MainLoadConfig
    \/ MainLoadAuth
    \/ MainStartServers
    \/ TlsPrecheck
    \/ \E k \in Kinds : SupStep(k)
    \/ Next

ProcessSpec == ProcessInit /\ [][ProcessNext]_vars

\* LoadAuthConfig on its own: every users.cnf of up to MaxLines lines, called
\* with no list loaded yet or with one from an earlier load
LoadInit ==
    /\ mainPc = "loadAuth"
    /\ usersFile \in UsersFiles
    /\ peers = <<>>
    /\ retries = [k \in Kinds |-> 0]
    /\ listeners = [k \in Kinds |-> 0]
    /\ authUsers \in {<<>>, <<User("u3", "p3", "")>>}
    /\ tlsWanted = FALSE
    /\ tlsFiles = [cert |-> "ok", key |-> "ok"]
    /\ sup = [k \in Kinds |-> "notStarted"]
    /\ ran = [k \in Kinds |-> 0]
    /\ wait = [k \in Kinds |-> 0]
    /\ lastErr = [k \in Kinds |-> "none"]
    /\ sinceFail = [k \in Kinds |-> 0]
    /\ configHosts = Catalog("default", 1)
    /\ timed = FALSE
    /\ NoConn

LoadNext == MainLoadAuth

LoadSpec == LoadInit /\ [][LoadNext]_vars

\* both endpoints accepting, the sessions they start running side by side
ConcInit ==
    /\ ProcRunning
    /\ authUsers = StoreUsers
    /\ configHosts = Catalog("default", DefaultHosts)
    /\ timed = FALSE
    /\ NoConn

ConcNext ==
    \/ \E k \in Kinds : AcceptPeer(k)
    \/ \E i \in 1..MaxPeers : PeerStep(i)

ConcSpec == ConcInit /\ [][ConcNext]_vars

\* the accept loops on their own, from the start of both supervisors
AcceptInit ==
    /\ mainPc = "running"
    /\ usersFile = GoodUsersFile
    /\ peers = <<>>
    /\ retries = [k \in Kinds |-> 0]
    /\ listeners = [k \in Kinds |-> 0]
    /\ tlsWanted = TRUE
    /\ tlsFiles = [cert |-> "ok", key |-> "ok"]
    /\ sup = [k \in Kinds |-> "loopTop"]
    /\ ran = [k \in Kinds |-> 0]
    /\ wait = [k \in Kinds |-> 0]
    /\ lastErr = [k \in Kinds |-> "none"]
    /\ sinceFail = [k \in Kinds |-> 0]
    /\ authUsers = <<User("u1", "p1", "")>>
    /\ configHosts = Catalog("default", 1)
    /\ timed = FALSE
    /\ NoConn

\* every way Accept returns
AcceptNext ==
    \/ \E k \in Kinds : CycleStart(k)
    \/ \E k \in Kinds : RunSetup(k)
    \/ \E k \in Kinds : AcceptPeer(k)
    \/ \E k \in Kinds : AcceptTimeout(k)
    \/ \E k \in Kinds : AcceptTemporary(k)
    \/ \E k \in Kinds : AcceptError(k)
    \/ \E k \in Kinds : SleepEnd(k)

AcceptSpec == AcceptInit /\ [][AcceptNext]_vars

\* the accept loops and their restarts beside the sessions they have started
RestartInit ==
    /\ mainPc = "running"
    /\ usersFile = GoodUsersFile
    /\ peers = <<>>
    /\ retries = [k \in Kinds |-> 0]
    /\ listeners = [k \in Kinds |-> 0]
    /\ tlsWanted = TRUE
    /\ tlsFiles = [cert |-> "ok", key |-> "ok"]
    /\ sup = [k \in Kinds |-> "loopTop"]
    /\ ran = [k \in Kinds |-> 0]
    /\ wait = [k \in Kinds |-> 0]
    /\ lastErr = [k \in Kinds |-> "none"]
    /\ sinceFail = [k \in Kinds |-> 0]
    /\ authUsers = <<User("u1", "p1", ""), User("u2", "p2", "user_ok")>>
    /\ configHosts = Catalog("default", 1)
    /\ timed = FALSE
    /\ NoConn

RestartNext ==
    \/ \E k \in Kinds : CycleStart(k)
    \/ \E k \in Kinds : RunSetup(k)
    \/ \E k \in Kinds : AcceptPeer(k)
    \/ \E k \in Kinds : AcceptError(k)
    \/ \E k \in Kinds : SleepEnd(k)
    \/ \E i \in 1..MaxPeers : PeerStep(i)

RestartSpec == RestartInit /\ [][RestartNext]_vars

\* ------------------------------------------------------------------ claims

\* C1: a session is in MenuDisplayed or Relaying (or on the error screen of a
\* dispatch) only if the handshake succeeded and authenticateUser accepted a
\* submitted (username, password) that is a record of the credential list;
\* HandleAuth never hands back an unauthenticated session, so the handler's
\* "!authSession.authenticated" return is never taken.
C1_MenuOnlyAfterAuth ==
    /\ SessionState \in {"MenuDisplayed", "Relaying", "ErrorNotice"} =>
          /\ negotiated
          /\ lookup.called
          /\ lookup.ok
          /\ \E i \in 1..Len(authUsers) :
                /\ authUsers[i].Username = lookup.username
                /\ authUsers[i].Password = lookup.password
          /\ session.authenticated
          /\ session.username = lookup.username
    /\ exit # "notAuthenticated"

\* a relay is running for a user whose credentials were accepted
C1_Witness ==
    /\ pc = "waitErr"
    /\ session.authenticated
    /\ lookup.ok
    /\ lookup.username = "u2"
    /\ tpc["c2t"] = "write"

\* the indices of the records equal to the inputs on both fields
Hits(users, username, password) ==
    {i \in 1..Len(users) : users[i].Username = username /\ users[i].Password = password}

\* C2: for every credential list and every (username, password),
\* authenticateUser answers (true, HostFile of the earliest record equal to
\* the inputs on both fields) when there is such a record, and (false, "")
\* when there is none.
C2_FirstMatchWins ==
    lookup.called =>
        LET hits == Hits(authUsers, lookup.username, lookup.password)
        IN  IF hits = {}
            THEN ~lookup.ok /\ lookup.hostFile = ""
            ELSE /\ lookup.ok
                 /\ \E i \in hits :
                       /\ \A j \in hits : i <= j
                       /\ lookup.hostFile = authUsers[i].HostFile

\* a lookup matched two records that carry different catalog references
C2_Witness ==
    /\ lookup.called
    /\ lookup.ok
    /\ \E i, j \in Hits(authUsers, lookup.username, lookup.password) :
          i < j /\ authUsers[i].HostFile # authUsers[j].HostFile

DisconnectTokens == {<<"9", "9">>, <<"X">>, <<"x">>}

\* C4: MenuDisplayed is left for Closed only by a disconnect token or by an
\* error of the menu screen; from a relay dispatch (the relay, a connect
\* failure, the error screen, failed or not) the next state is never Closed.
C4_MenuClosesOnlyOnTokenOrScreenError ==
    [][/\ (SessionState = "MenuDisplayed" /\ SessionState' # "MenuDisplayed"
              /\ SessionState' # "Relaying") =>
             /\ SessionState' = "Closed"
             /\ \/ exit' = "menuError"
                \/ exit' = "disconnect" /\ selection' \in DisconnectTokens
       /\ SessionState \in {"Relaying", "ErrorNotice"} => SessionState' # "Closed"
      ]_vars

\* at the menu after a connect failure whose re-negotiation failed too
C4_Witness ==
    /\ pc = "MenuDisplayed"
    /\ result = "connectFailed"
    /\ proto = "negFailed"

\* the decimal numerals: 7 is "7", 42 is "42"
DigitChar(d) == <<"0", "1", "2", "3", "4", "5", "6", "7", "8", "9">>[d + 1]

RECURSIVE Numeral(_)
Numeral(k) ==
    IF k < 10 THEN <<DigitChar(k)>> ELSE Append(Numeral(k \div 10), DigitChar(k % 10))

Zeros(z) == [i \in 1..z |-> "0"]

\* the selection writes the number k: an optional plus sign, leading zeros,
\* the numeral
Writes(sel, k) ==
    \E sign \in {<<>>, <<"+">>}, z \in 0..SelFieldWidth : sel = sign \o Zeros(z) \o Numeral(k)

InRange(sel, n) == \E k \in 1..n : Writes(sel, k)

\* a step of the menu that handles an Enter response
MenuInputStep == pc = "MenuDisplayed" /\ exit' # "menuError"

\* C5: a menu input that is no disconnect token and writes no integer in
\* [1, catalogSize] leaves the session in MenuDisplayed; connectToHost is not
\* called and no backend connection is opened.
C5_InvalidSelectionStays ==
    [][(/\ MenuInputStep
        /\ selection' \notin DisconnectTokens
        /\ ~InRange(selection', Len(userHosts))) =>
            /\ pc' = "MenuDisplayed"
            /\ connOpen'
            /\ target' = "none"
            /\ UNCHANGED relayVars
            /\ UNCHANGED <<session, userHosts>>
      ]_vars

\* the menu is shown again after the selection "0"
C5_Witness ==
    /\ pc = "MenuDisplayed"
    /\ selection = <<"0">>
    /\ Len(userHosts) > 0

\* C6: the inputs "99", "X" and "x" close the session from the menu and no
\* relay is dispatched, whatever the size of the catalog, also when the
\* catalog has a host number 99.
C6_TokensAlwaysDisconnect ==
    [][(MenuInputStep /\ selection' \in DisconnectTokens) =>
            /\ pc' = "Closed"
            /\ exit' = "disconnect"
            /\ ~connOpen'
            /\ UNCHANGED relayVars
      ]_vars

\* "99" closed a session whose catalog has a host 99
C6_Witness ==
    /\ pc = "Closed"
    /\ exit = "disconnect"
    /\ selection = <<"9", "9">>
    /\ Len(userHosts) >= 99

\* a direction goroutine that has not returned
Running(i) == tpc[i] \in {"select", "read", "write"}

\* C7 as claimed: after one direction goroutine has reported an error and
\* cancelled, the other one is gone within one poll interval, whatever it was
\* doing at that moment.
C7_ReturnsWithinOnePoll ==
    \A i \in Tasks : (ctxDone /\ Running(i)) => sinceCancel <= ReadSlice

\* C7: after one direction goroutine has reported an error and cancelled, the
\* other one returns within one poll interval when it waits in a read, and
\* when it is in (or goes into) a write it returns when the write ends, at
\* most the 5 s write deadline later; the engine always gets past wg.Wait().
C7_ReturnsWithinPollOrWriteDeadline ==
    /\ [](\A i \in Tasks :
            /\ (ctxDone /\ tpc[i] = "read") => sinceCancel <= ReadSlice
            /\ (ctxDone /\ Running(i)) => sinceCancel <= ReadSlice + WriteTimeout)
    /\ (ctxDone ~> (\A i \in Tasks : ~Running(i)))
    /\ ((pc = "waitErr" /\ ctxDone) ~> (pc = "reset"))

\* the barrier was passed a full write deadline after the cancellation
C7_Witness ==
    /\ pc = "reset"
    /\ sinceCancel = WriteTimeout
    /\ \A i \in Tasks : tpc[i] = "done"

\* C8: the client reset, the settle delay and the re-negotiation start only
\* when the backend connection is closed and both direction goroutines have
\* returned; no goroutine is in a read or a write after wg.Wait(), nor when
\* connectToHost returns to the menu loop.
C8_BarrierBeforeCleanup ==
    /\ pc \in {"reset", "reneg", "ret"} =>
          /\ target = "closed"
          /\ wg = 0
          /\ \A i \in Tasks : tpc[i] = "done"
    /\ SessionState \in {"MenuDisplayed", "ErrorNotice", "Closed"} =>
          \A i \in Tasks : ~Running(i)

\* cleanup has begun after both goroutines reported an error of their own
C8_Witness ==
    /\ pc = "reset"
    /\ Len(errChan) = 1
    /\ \A i \in Tasks : tpc[i] = "done"
    /\ target = "closed"

\* C9: no step of connectToHost closes the client conn: it is open throughout
\* the call and when the call returns, on the connect-failure path and on the
\* relay path; the conn is closed only by the return of the session handler.
C9_EngineNeverClosesClient ==
    /\ [](SessionState \in {"Relaying", "ErrorNotice", "MenuDisplayed"} => connOpen)
    /\ [][SessionState = "Relaying" => connOpen' = connOpen]_vars
    /\ [][(connOpen /\ ~connOpen') =>
             /\ pc \in {"Handshaking", "Authenticating", "MenuDisplayed"}
             /\ pc' = "Closed"]_vars

\* the handler closed the conn after a relay had come back to the menu
C9_Witness ==
    /\ pc = "Closed"
    /\ ~connOpen
    /\ exit = "disconnect"
    /\ proto = "negFailed"
    /\ negotiated

\* C10: a failed dial starts no direction goroutine and returns a
\* connect-failure error; the menu loop then shows one error screen naming
\* the selected host, and when that screen comes back the session is in
\* MenuDisplayed with the catalog it had.
C10_ConnectFailureShowsOneNotice ==
    /\ [](pc = "ErrorNotice" =>
            /\ result = "connectFailed"
            /\ notices = 1
            /\ noticeHost = userHosts[selNum].Name
            /\ target = "none"
            /\ \A i \in Tasks : tpc[i] = "none")
    /\ [][(pc = "dial" /\ target' = "none") =>
            /\ pc' = "ErrorNotice"
            /\ result' = "connectFailed"]_vars
    /\ [][pc = "ErrorNotice" =>
            /\ pc' = "MenuDisplayed"
            /\ notices' = 1
            /\ userHosts' = userHosts
            /\ connOpen']_vars

\* at the menu after the error screen for the second host of the catalog
C10_Witness ==
    /\ pc = "MenuDisplayed"
    /\ result = "connectFailed"
    /\ notices = 1
    /\ selNum = 2
    /\ noticeHost = userHosts[2].Name

\* a screen of the menu loop shown after connectToHost has come back
ScreenAfterDispatch == pc \in {"MenuDisplayed", "ErrorNotice"} /\ result # "none"

\* C11 as stated: whenever the menu or the error notice is presented after a
\* relay dispatch, the client conn is back in the negotiated block-mode
\* state.
C11_ScreenOnlyInBlockMode ==
    ScreenAfterDispatch => proto = "block"

\* C11: whenever the menu or the error notice is presented after a relay
\* dispatch, the last protocol change of the client conn was a negotiation
\* attempt, never an un-negotiation; the conn is back in block mode unless
\* that negotiation failed, which after a relay means that all
\* MaxRenegAttempts attempts failed and after a failed dial that the single
\* attempt failed, and the screen is then presented all the same.
C11_ScreenAfterNegotiationAttempt ==
    /\ [](ScreenAfterDispatch => proto \in {"block", "negFailed"})
    /\ [][(pc = "ret" /\ pc' = "MenuDisplayed") =>
             \/ proto' = "block"
             \/ proto' = "negFailed" /\ negotiateErr /\ attempts = MaxRenegAttempts]_vars
    /\ [][(pc = "dial" /\ pc' = "ErrorNotice") => proto' \in {"block", "negFailed"}]_vars
    /\ [][(pc = "ErrorNotice" /\ pc' = "MenuDisplayed") => proto' = proto]_vars

\* the menu is presented after a relay whose three re-negotiations failed
C11_Witness ==
    /\ pc = "MenuDisplayed"
    /\ result = "nil"
    /\ proto = "negFailed"
    /\ connOpen

\* the last cycle of supervisor k ended with an error after d = ran[k]
CycleFailed(k) == lastErr[k] # "none"

\* C12 as stated: a cycle that ended with an error after d >= 5 minutes,
\* exactly 5 minutes included, is followed by no enforced delay; any other
\* one by a restart no earlier than 30 seconds after the failure.
C12_ImmediateFromFiveMinutes ==
    \A k \in Kinds :
       CycleFailed(k) =>
          IF ran[k] >= HealthyRun
          THEN sup[k] = "loopTop" /\ wait[k] = 0
          ELSE /\ sup[k] \in {"sleep", "loopTop"}
               /\ sup[k] = "loopTop" => sinceFail[k] >= RestartDelay

\* C12: for each listener supervisor, a cycle that ended with an error after
\* d > 5 minutes is followed by the next cycle with no enforced delay; any
\* other one, the one that ran exactly 5 minutes included, by a next cycle
\* that starts no earlier than 30 seconds after the failure.
C12_ImmediateAfterFiveMinutes ==
    \A k \in Kinds :
       CycleFailed(k) =>
          IF ran[k] > HealthyRun
          THEN sup[k] = "loopTop" /\ wait[k] = 0 /\ sinceFail[k] = 0
          ELSE /\ sup[k] \in {"sleep", "loopTop"}
               /\ sup[k] = "sleep" => wait[k] + sinceFail[k] = RestartDelay
               /\ sup[k] = "loopTop" => sinceFail[k] >= RestartDelay

\* one supervisor restarts at once after more than 5 minutes while the
\* other, which failed after exactly 5 minutes, has slept its 30 seconds
C12_Witness ==
    /\ CycleFailed("std") /\ ran["std"] > HealthyRun /\ sup["std"] = "loopTop"
    /\ CycleFailed("tls") /\ ran["tls"] = HealthyRun /\ sup["tls"] = "loopTop"
    /\ sinceFail["tls"] = RestartDelay

\* C13: a supervisor that has entered its restart loop stays in it, and every
\* end of a cycle (bind failure, certificate load failure, accept error) is
\* eventually followed by the start of a new cycle, however many cycles
\* have failed before.
C13_SupervisorNeverLeavesLoop ==
    /\ [][\A k \in Kinds : sup[k] \in LoopPcs => sup'[k] \in LoopPcs]_vars
    /\ \A k \in Kinds : (CycleFailed(k) /\ sup[k] \in LoopPcs) ~> (sup[k] = "run")
    /\ \A k \in Kinds : []((CycleFailed(k) /\ mainPc = "running") => sup[k] \in {"sleep", "loopTop"})

\* the encrypted supervisor has started a cycle again 30 seconds after a
\* failure, with a key pair that still does not load
C13_Witness ==
    /\ sup["tls"] = "run"
    /\ sinceFail["tls"] = RestartDelay
    /\ ~TlsPairLoads(tlsFiles)
    /\ sup["std"] = "sleep"
    /\ lastErr["std"] = "listen"

\* the supervisor other than k
Other(k) == IF k = "std" THEN "tls" ELSE "std"

\* supervisor k is at a step of its own that is not a sleep still running
Runnable(k) ==
    \/ sup[k] \in {"loopTop", "run"}
    \/ sup[k] = "sleep" /\ wait[k] = 0
    \/ sup[k] = "accept"

\* C14: the two supervisors are independent: main starts the plaintext one
\* whatever becomes of the encrypted one, a step of one supervisor (a
\* failure, the start or the end of a restart wait, the return of
\* startTLSServer) leaves the position, the run time, the sleep and the
\* error of the other as they were, and a supervisor that is at a step of
\* its own can take it whatever the other is doing.
C14_SupervisorsIndependent ==
    /\ [](mainPc = "running" => sup["std"] \in LoopPcs)
    /\ [][\A k \in Kinds :
            (sup'[k] # sup[k] /\ mainPc = "running") =>
               /\ sup'[Other(k)] = sup[Other(k)]
               /\ ran'[Other(k)] = ran[Other(k)]
               /\ wait'[Other(k)] = wait[Other(k)]
               /\ lastErr'[Other(k)] = lastErr[Other(k)]
               /\ sinceFail'[Other(k)] = sinceFail[Other(k)]]_vars
    /\ [](\A k \in Kinds :
            (mainPc = "running" /\ Runnable(k)) =>
               ENABLED (CycleStart(k) \/ RunSetup(k) \/ AcceptError(k) \/ SleepEnd(k)))
    /\ [](\A k \in Kinds :
            (mainPc = "running" /\ sup[k] = "accept" /\ pc \in {"Unaccepted", "Closed"}) =>
               ENABLED AcceptConn(k))

\* the plaintext endpoint has accepted a connection although the encrypted
\* one was never started
C14_Witness ==
    /\ sup["tls"] = "returned"
    /\ sup["std"] = "accept"
    /\ kind = "std"
    /\ pc = "Accepted"
    /\ ran["std"] > HealthyRun

\* the certificate file or the key file is not there
SomeFileMissing == tlsFiles.cert = "missing" \/ tlsFiles.key = "missing"

\* the certificate and the key are a pair that loads
PairIsGood == tlsFiles.cert = "ok" /\ tlsFiles.key = "ok"

\* C15 as stated: when at startup the certificate or the key file does not
\* exist or the pair cannot be loaded, startTLSServer returns without entering
\* the restart loop.
C15_UnloadablePairNeverStarts ==
    [][(sup["tls"] = "precheck" /\ ~PairIsGood) =>
          sup'["tls"] \in {"precheck", "returned"}]_vars

\* C15: when at startup the certificate or the key file does not exist,
\* startTLSServer returns without entering the restart loop and no encrypted
\* cycle is ever started; files that exist let it enter the loop, loadable
\* or not.  The existence check is made once: inside the loop a pair that
\* is missing or does not load ends the cycle with an error and the
\* supervisor stays in the loop, to load the pair again at each restart.
C15_MissingFilesNeverStart ==
    /\ [][(sup["tls"] = "precheck" /\ SomeFileMissing) =>
             sup'["tls"] \in {"precheck", "returned"}]_vars
    /\ [][(sup["tls"] = "precheck" /\ ~SomeFileMissing) =>
             sup'["tls"] \in {"precheck", "loopTop"}]_vars
    /\ [][sup["tls"] = "returned" => sup'["tls"] = "returned"]_vars
    /\ [](sup["tls"] = "returned" => ~CycleFailed("tls") /\ kind # "tls")
    /\ [][(sup["tls"] = "run" /\ ~PairIsGood) =>
             \/ sup'["tls"] = "run"
             \/ lastErr'["tls"] = "cert" /\ sup'["tls"] = "sleep"]_vars

\* startTLSServer has returned because the key file did not exist, while
\* the plaintext supervisor runs its cycles
C15_Witness ==
    /\ sup["tls"] = "returned"
    /\ tlsFiles.key = "missing"
    /\ tlsFiles.cert = "ok"
    /\ CycleFailed("std")

\* the per-user catalog file f cannot be read, or is read and does not parse
CatalogUnusable(f) ==
    /\ f # ""
    /\ \/ ReadFile(f).err
       \/ Unmarshal(f, ReadFile(f).data).err

\* C16: valid credentials whose record names a per-user catalog file that
\* cannot be read or does not parse still authenticate, and the session's
\* catalog is then exactly the default catalog: the hosts decoded before a
\* parse error are never installed.
C16_BadUserCatalogFallsBack ==
    /\ (lookup.called /\ lookup.ok /\ CatalogUnusable(lookup.hostFile)) =>
          /\ session.authenticated
          /\ session.hostFile = lookup.hostFile
          /\ pc # "Authenticating"
          /\ exit \notin {"notAuthenticated", "authError"}
          /\ userHosts = configHosts
    /\ SessionState \in {"MenuDisplayed", "Relaying", "ErrorNotice"} =>
          \A f \in {"user_bad", "user_missing"} :
             \A i \in 1..Len(userHosts) : userHosts[i].Name # Host(f, 1).Name

\* a session whose per-user file does not parse is relaying to a host of the
\* default catalog
C16_Witness ==
    /\ lookup.ok
    /\ lookup.hostFile = "user_bad"
    /\ ~ReadFile("user_bad").err
    /\ Unmarshal("user_bad", ReadFile("user_bad").data).hosts # <<>>
    /\ pc = "waitErr"
    /\ userHosts = configHosts
    /\ selNum = 1

\* C17: a session marked authenticated has a non-empty username, the one
\* that was submitted and that a record of the credential list holds, for
\* every form input, the empty username and the empty password included,
\* and every credential list LoadAuthConfig can have stored.
C17_AuthenticatedHasUsername ==
    /\ session.authenticated =>
          /\ session.username # ""
          /\ session.username = lookup.username
          /\ \E i \in 1..Len(authUsers) : authUsers[i].Username = session.username
    /\ (lookup.called /\ lookup.username = "") => ~session.authenticated /\ ~lookup.ok

\* the user of the last record of a full list is authenticated
C17_Witness ==
    /\ session.authenticated
    /\ session.username = "u2"
    /\ Len(authUsers) = MaxUsers
    /\ authUsers[1].Username = "u1"

\* C18: the process exits only when loadConfig or LoadAuthConfig fails, and
\* then before a supervisor is started or a connection accepted; once both
\* loads have succeeded nothing ends it: no bind, key pair or accept error
\* of a supervisor and no handshake, authentication, relay or
\* re-negotiation error of a session.
C18_ExitOnlyOnLoadFailure ==
    /\ [][(mainPc' = "exited" /\ mainPc # "exited") =>
             /\ mainPc \in {"loadConfig", "loadAuth"}
             /\ \A k \in Kinds : sup[k] = "notStarted"
             /\ pc = "Unaccepted"]_vars
    /\ [][(mainPc \in {"start", "running"}) => (mainPc' \in {"start", "running"})]_vars
    /\ [](\A k \in Kinds : (sup[k] # "notStarted" \/ CycleFailed(k)) => mainPc = "running")
    /\ [](pc # "Unaccepted" => mainPc = "running")

\* the process runs on after a listener error and, on the connection it
\* accepted, a relay whose re-negotiations all failed
C18_Witness ==
    /\ mainPc = "running"
    /\ sup["std"] = "sleep"
    /\ lastErr["std"] = "accept"
    /\ sup["tls"] = "sleep"
    /\ lastErr["tls"] = "listen"
    /\ pc = "MenuDisplayed"
    /\ result = "nil"
    /\ proto = "negFailed"

\* the selection sel neither is a disconnect token nor writes a host number
\* of a catalog of n hosts
InvalidSelection(sel, n) == sel \notin DisconnectTokens /\ ~InRange(sel, n)

\* the session and the catalog as authentication left them
AsAuthenticated ==
    /\ session = authSession(TRUE, lookup.username, lookup.hostFile)
    /\ lookup.ok
    /\ userHosts \in {configHosts} \cup
                     {Unmarshal(f, ReadFile(f).data).hosts : f \in {lookup.hostFile} \ {""}}

\* C19: each of N consecutive invalid selections, for every N up to
\* MaxInvalid and beyond, comes back to the menu with the authenticated flag,
\* the username, the session's catalog, the default catalog and the
\* credential list as authentication left them; after the second and every
\* later one the whole state but the typed selection is what it was after
\* the one before, and once MaxInvalid are counted the state repeats.
C19_InvalidSelectionsIdempotent ==
    /\ [][(MenuInputStep /\ InvalidSelection(selection', Len(userHosts))) =>
             /\ pc' = "MenuDisplayed"
             /\ invalidRun' = Min(invalidRun + 1, MaxInvalid)
             /\ UNCHANGED <<session, userHosts, configHosts, authUsers>>]_vars
    /\ [](pc = "MenuDisplayed" => AsAuthenticated)
    /\ [][(pc = "MenuDisplayed" /\ invalidRun >= 1 /\ pc' = "MenuDisplayed") =>
             /\ UNCHANGED <<handlerVars, authVars, relayVars, globalVars>>
             /\ UNCHANGED <<selNum, result, notices, noticeHost>>
             /\ invalidRun = MaxInvalid => invalidRun' = invalidRun]_vars

\* MaxInvalid invalid selections in a row, the last one "-1", in a session
\* with a per-user catalog
C19_Witness ==
    /\ pc = "MenuDisplayed"
    /\ invalidRun = MaxInvalid
    /\ selection = <<"-", "1">>
    /\ session.hostFile = "user_ok"
    /\ userHosts # configHosts

\* C20: when the first NegotiateTelnet on a fresh connection fails, by an
\* error or by the expiry of the handshake deadline, the handler returns and
\* the conn is closed: the negotiation is not tried again, the session never
\* is in Authenticating, no login screen is presented and authenticateUser
\* is not called.
C20_HandshakeFailureIsTerminal ==
    /\ [][(pc = "Handshaking" /\ proto' = "negFailed") =>
             /\ pc' = "Closed"
             /\ exit' = "negotiateFailed"
             /\ ~connOpen'
             /\ UNCHANGED <<authVars, menuVars, relayVars>>]_vars
    /\ [][(pc' = "Handshaking" /\ pc # "Handshaking") => (pc = "Accepted" /\ proto = "fresh")]_vars
    /\ [][(exit = "negotiateFailed") => UNCHANGED vars]_vars
    /\ [](exit = "negotiateFailed" =>
             /\ pc = "Closed"
             /\ ~connOpen
             /\ proto = "negFailed"
             /\ ~negotiated
             /\ ~lookup.called
             /\ session = EmptySession
             /\ ~errorMsg)
    /\ [](pc = "Authenticating" => negotiated /\ proto = "block")

\* an encrypted connection closed after its handshake failed under the
\* handshake deadline
C20_Witness ==
    /\ kind = "tls"
    /\ exit = "negotiateFailed"
    /\ pc = "Closed"
    /\ connRD = TlsHandshakeDeadline
    /\ ~lookup.called

\* a step of the login form that handles an Enter response
Submission == pc = "Authenticating" /\ exit' = exit

\* C21: a submission that matches no record leaves the session in
\* Authenticating with the error message set, the session and the conn as
\* they were and the form shown again, for runs of rejected submissions of
\* every length; Authenticating is left for Closed only by the logoff key or
\* an error of the screen, and for MenuDisplayed only by a submission that
\* matches a record.
C21_FailedLoginStaysInAuthenticating ==
    /\ [][(Submission /\ Hits(authUsers, lookup'.username, lookup'.password) = {}) =>
             /\ pc' = "Authenticating"
             /\ errorMsg'
             /\ failedLogins' = Min(failedLogins + 1, MaxFailedLogins)
             /\ session' = session
             /\ connOpen'
             /\ UNCHANGED <<userHosts, proto, negotiated>>]_vars
    /\ [](pc = "Authenticating" =>
             /\ session = EmptySession
             /\ connOpen
             /\ failedLogins >= 1 <=> errorMsg)
    /\ [][(pc = "Authenticating" /\ pc' = "Closed") => (exit' \in {"pf9", "authError"})]_vars
    /\ [][(pc = "Authenticating" /\ pc' \notin {"Authenticating", "Closed"}) =>
             /\ pc' = "MenuDisplayed"
             /\ Hits(authUsers, lookup'.username, lookup'.password) # {}
             /\ session'.authenticated]_vars

\* the login form after MaxFailedLogins rejected submissions in a row, the
\* last one a known username with the password of another user
C21_Witness ==
    /\ pc = "Authenticating"
    /\ failedLogins = MaxFailedLogins
    /\ errorMsg
    /\ lookup.username = "u1"
    /\ lookup.password = "p2"

\* ---------------------------------------------------------------------------
\* C22

\* the valid records of a file that opens, in file order, as the claim reads
\* them: two fields or more, not a comment, username and password non-empty
IsValidLine(l) ==
    /\ Len(l) >= 2
    /\ l[1] \notin CommentFields
    /\ l[1] \notin {"", " "}
    /\ l[2] \notin {"", " "}

ValidLines(file) == IF file.openErr THEN <<>> ELSE SelectSeq(file.lines, IsValidLine)

AsUser(l) == User(l[1], l[2], IF Len(l) >= 3 THEN l[3] ELSE "")

\* C22 as stated: loading the credential store fails exactly when the file
\* yields zero valid records.  Violated: a file whose scan ends with an error
\* after valid records were read fails the load too.
C22_FailsExactlyOnZeroRecords ==
    mainPc # "loadAuth" => (mainPc = "exited" <=> ValidLines(usersFile) = <<>>)

\* C22 (amended): the load fails exactly when the file cannot be opened, when
\* scanning it ends with an error, or when it yields zero valid records, a
\* record being valid only when username and password are both non-empty; a
\* failed load leaves the credential list unchanged, and a successful one
\* replaces it as a whole by the valid records in file order.
C22_LoadFailsOrReplaces ==
    /\ [](mainPc # "loadAuth" =>
            (mainPc = "exited" <=>
                \/ usersFile.openErr
                \/ usersFile.readErr
                \/ ValidLines(usersFile) = <<>>))
    /\ [][(mainPc = "loadAuth" /\ mainPc' = "exited") => authUsers' = authUsers]_vars
    /\ [][(mainPc = "loadAuth" /\ mainPc' = "start") =>
             /\ Len(authUsers') = Len(ValidLines(usersFile))
             /\ \A i \in 1..Len(authUsers') :
                    authUsers'[i] = AsUser(ValidLines(usersFile)[i])]_vars

\* a scan that read a valid record and then failed: startup is rejected and
\* the list loaded earlier is still in place
C22_Witness ==
    /\ mainPc = "exited"
    /\ usersFile.readErr /\ ~usersFile.openErr
    /\ ValidLines(usersFile) # <<>>
    /\ authUsers = <<User("u3", "p3", "")>>

\* ---------------------------------------------------------------------------
\* C23

\* C23: accept never blocks on session work.  Whatever stages the running
\* sessions are blocked at, an endpoint that was accepting is still at Accept
\* and can accept a connection and start a session for it; accepting leaves
\* the loop at Accept and the sessions already running where they were.
C23_AcceptNeverBlocksOnSessions ==
    /\ [](\A k \in Kinds :
            /\ sup[k] \notin {"notStarted", "precheck", "returned", "loopTop", "run", "sleep"}
            /\ Len(peers) < MaxPeers
            => ENABLED AcceptPeer(k))
    /\ [][Len(peers') > Len(peers) =>
             /\ sup' = sup
             /\ \A i \in 1..Len(peers) : peers'[i] = peers[i]
             /\ peers'[Len(peers')].stage = "Handshaking"]_vars

\* an endpoint at Accept while a session it started is inside a relay
C23_Witness ==
    /\ Len(peers) = 1
    /\ peers[1].stage = "Relaying"
    /\ sup[peers[1].kind] = "accept"
    /\ ENABLED AcceptPeer(peers[1].kind)

\* ---------------------------------------------------------------------------
\* C24

Retried(k) == retries'[k] # retries[k]

\* C24 as stated: in the accept cycle of every endpoint kind the accept call
\* is under a periodic deadline, so a deadline expiry can occur and be
\* retried.  Violated: the Accept of the encrypted endpoint has no deadline.
C24_EveryAcceptHasDeadline ==
    \A k \in Kinds : sup[k] = "accept" => ENABLED AcceptTimeout(k)

\* C24 (amended): the Accept of the plaintext endpoint is under a deadline of
\* one minute, and its expiry retries Accept inside the same cycle: the
\* cycle does not end, the listener is not set up again and the restart
\* policy is not invoked.  The Accept of the encrypted endpoint has no
\* deadline; what it retries inside the cycle is a temporary accept error,
\* which on the plaintext endpoint ends the cycle.
C24_PlaintextAcceptDeadlineRetries ==
    /\ [](sup["std"] = "accept" => ENABLED AcceptTimeout("std"))
    /\ [](~ENABLED AcceptTimeout("tls"))
    /\ [][\A k \in Kinds : Retried(k) =>
             /\ sup[k] = "accept"
             /\ UNCHANGED <<sup, lastErr, wait, sinceFail, ran, peers, mainPc>>]_vars
    /\ [][(sup["std"] = "accept" /\ sup'["std"] # "accept") =>
             /\ lastErr'["std"] = "accept"
             /\ ~Retried("std")]_vars

\* both endpoints have retried Accept and are still in the cycle they were in
C24_Witness ==
    /\ \A k \in Kinds : retries[k] = MaxRetries /\ sup[k] = "accept"
    /\ \A k \in Kinds : lastErr[k] = "none"

\* ---------------------------------------------------------------------------
\* C25

\* passes of the re-negotiation loop made so far: the failed ones are counted
\* in attempts, a successful one ends the loop without being counted
Tries == IF negotiateErr THEN attempts ELSE attempts + 1

\* C25: after a relay the client protocol is re-negotiated at least once and
\* at most MaxRenegAttempts times; a failed attempt ran under the deadline set
\* for it, the first success ends the loop and clears the deadline, and the
\* loop goes on only while every attempt so far failed and attempts remain.
\* Each pass either ends the loop or uses up one of the attempts, so the loop
\* terminates, and connectToHost then returns nil to the menu whether or not
\* an attempt succeeded.
C25_RenegotiationBounded ==
    /\ [](pc = "ret" =>
            /\ Tries \in 1..MaxRenegAttempts
            /\ negotiateErr => attempts = MaxRenegAttempts)
    /\ [](pc = "reneg" =>
            /\ attempts < MaxRenegAttempts
            /\ attempts > 0 => negotiateErr
            /\ ENABLED Renegotiate)
    /\ [][pc = "reneg" =>
             \/ /\ pc' = "ret" /\ ~negotiateErr' /\ attempts' = attempts
                /\ proto' = "block" /\ connRD' = NoDeadline /\ connWD' = NoDeadline
             \/ /\ negotiateErr' /\ attempts' = attempts + 1
                /\ connRD' = RenegDeadline /\ connWD' = RenegDeadline
                /\ pc' = IF attempts' < MaxRenegAttempts THEN "reneg" ELSE "ret"]_vars
    /\ [](pc = "ret" => ENABLED ConnectReturn)
    /\ [][pc = "ret" =>
             /\ pc' = "MenuDisplayed" /\ result' = "nil"
             /\ connRD' = NoDeadline /\ connWD' = NoDeadline]_vars

\* the relay is over and the third attempt was the first to succeed
C25_Witness ==
    /\ pc = "ret"
    /\ attempts = MaxRenegAttempts - 1
    /\ ~negotiateErr
    /\ proto = "block"

\* ---------------------------------------------------------------------------
\* C26

\* C26: whether or not un-negotiating the client protocol succeeds,
\* connectToHost goes on to dial the backend host.  The un-negotiation step
\* produces no result and shows no notice, an error result comes from the
\* dial only, and after a failed un-negotiation the dial can still succeed
\* and start the relay.
C26_UnnegotiateFailureProceeds ==
    /\ [][pc = "unneg" =>
             /\ pc' = "dial"
             /\ proto' \in {"line", "unnegFailed"}
             /\ result' = "none" /\ notices' = 0
             /\ target' = "none" /\ connOpen']_vars
    /\ [][(result' = "connectFailed" /\ result # "connectFailed") => pc = "dial"]_vars
    /\ [](pc = "dial" => ENABLED DialOk)
    /\ [][(pc = "dial" /\ proto = "unnegFailed" /\ target' = "open") =>
             /\ pc' = "waitErr"
             /\ \A i \in Tasks : tpc'[i] = "select"]_vars

\* the relay running after an un-negotiation that failed
C26_Witness ==
    /\ pc = "waitErr"
    /\ proto = "unnegFailed"
    /\ target = "open"
    /\ \E i \in Tasks : tpc[i] \notin {"none", "select"}

\* ---------------------------------------------------------------------------
\* C27

ReturnsConnectFailed == pc = "dial" /\ result' = "connectFailed"

\* C27 as stated: whenever connectToHost returns connectFailed the relay was
\* never reached and the protocol state of the client conn at return equals
\* its state at the call.  Violated: the call un-negotiates and re-negotiates
\* once, and the re-negotiation can fail.
C27_ConnectFailedLeavesProtocol ==
    [][ReturnsConnectFailed =>
         /\ target = "none" /\ target' = "none"
         /\ \A i \in Tasks : tpc[i] = "none" /\ tpc'[i] = "none"
         /\ proto' = protoAtCall]_vars

\* C27 (amended): whenever connectToHost returns connectFailed the relay was
\* never reached: no backend connection exists and no direction task was
\* started.  The client protocol was disrupted on the way: it was
\* un-negotiated (or the un-negotiation failed) before the dial and
\* re-negotiated once after it, the result dropped; at return the conn is in
\* block mode when that attempt succeeded and in the state a failed
\* negotiation leaves otherwise, with its deadlines removed.
C27_ConnectFailedNeverReachesRelay ==
    /\ [][ReturnsConnectFailed =>
             /\ target = "none" /\ target' = "none"
             /\ \A i \in Tasks : tpc[i] = "none" /\ tpc'[i] = "none"
             /\ wg' = 0 /\ errChan' = <<>>
             /\ proto \in {"line", "unnegFailed"}
             /\ proto' \in {"block", "negFailed"}
             /\ connRD' = NoDeadline /\ connWD' = NoDeadline
             /\ connOpen']_vars
    /\ [](pc = "dial" => protoAtCall \in {"block", "negFailed"} /\ target = "none")
    /\ [](result = "connectFailed" => target = "none" /\ \A i \in Tasks : tpc[i] = "none")

\* the error notice of the first connect failure of a session, on a conn left
\* by the failed re-negotiation
C27_Witness ==
    /\ pc = "ErrorNotice"
    /\ result = "connectFailed"
    /\ proto = "negFailed"
    /\ failedLogins = 0 /\ notices = 1

\* ---------------------------------------------------------------------------
\* C28

InIO(i) == tpc[i] \in {"read", "write"}

\* C28: a direction task whose Read or Write fails with an error that is no
\* read timeout sends that one error on errChan, cancels the context and
\* returns: the channel grows by exactly the error, only such a step makes
\* it grow, the send never finds the channel full, and a task that has
\* returned does no further I/O.  A task that returns because it saw the
\* context cancelled at the top of its loop sends nothing.
C28_ErrorReportedOnceThenCancel ==
    /\ [][\A i \in Tasks : (InIO(i) /\ tpc'[i] = "done") =>
             /\ Len(errChan') = Len(errChan) + 1
             /\ SubSeq(errChan', 1, Len(errChan)) = errChan
             /\ errChan'[Len(errChan')] \in {"EOF", "closed", "reset", "timeout"}
             /\ ctxDone'
             /\ wg' = wg - 1]_vars
    /\ [][Len(errChan') > Len(errChan) =>
             \E i \in Tasks : InIO(i) /\ tpc'[i] = "done"]_vars
    /\ [][\A i \in Tasks : tpc[i] = "done" => tpc'[i] \in {"done", "none"}]_vars
    /\ [][\A i \in Tasks : (tpc[i] = "select" /\ tpc'[i] = "done") =>
             /\ ctxDone
             /\ errChan' = errChan
             /\ finalErr' = finalErr]_vars
    /\ [](\A i \in Tasks : InIO(i) => Len(errChan) < ErrChanCap)
    /\ [](errChan # <<>> => ctxDone)

\* one task reported the end of its peer's stream and the other returned on
\* seeing the cancellation, without reporting
C28_Witness ==
    /\ pc = "wgWait"
    /\ finalErr = "EOF"
    /\ errChan = <<>>
    /\ \A i \in Tasks : tpc[i] = "done"
    /\ wg = 0

\* ---------------------------------------------------------------------------
\* C29

RelayActive ==
    /\ pc = "waitErr" /\ target = "open" /\ wg = 2
    /\ \A i \in Tasks : tpc[i] \in {"select", "read", "write"}

\* C29: the expiry of a read deadline alone reports nothing, cancels nothing
\* and does not end the relay.  A Read that ends the task reports an error
\* that is no timeout; a Read that times out takes the task back to the top
\* of its loop with the channel, the context, the WaitGroup and the engine
\* untouched; and for as long as read timeouts follow one another with no
\* cancellation signalled, both tasks are in their loops, the engine waits on
\* the channel, and a task at the top of its loop reads again.
C29_ReadTimeoutKeepsRelaying ==
    /\ [][\A i \in Tasks : (tpc[i] = "read" /\ tpc'[i] = "done") =>
             errChan'[Len(errChan')] \in {"EOF", "closed"}]_vars
    /\ [][\A i \in Tasks : (tpc[i] = "read" /\ tpc'[i] = "select") =>
             UNCHANGED <<errChan, ctxDone, wg, finalErr, pc, target, connOpen>>]_vars
    /\ [](timeoutRun >= 1 => ~ctxDone /\ errChan = <<>> /\ RelayActive)
    /\ [](\A i \in Tasks : (RelayActive /\ ~ctxDone /\ tpc[i] = "select") =>
             ENABLED TaskSelect(i))
    /\ [][\A i \in Tasks : (tpc[i] = "select" /\ ~ctxDone) =>
             tpc'[i] \in {"select", "read"}]_vars
    /\ [][(pc = "waitErr" /\ pc' # "waitErr") => errChan # <<>>]_vars

\* MaxTimeouts read timeouts in a row and both tasks are reading again
C29_Witness ==
    /\ timeoutRun = MaxTimeouts
    /\ \A i \in Tasks : tpc[i] = "read"
    /\ pc = "waitErr"

\* ---------------------------------------------------------------------------
\* C30

DefaultCatalog == Catalog("default", DefaultHosts)

HasCatalog(p) == p.stage \in {"MenuDisplayed", "Relaying"}

Installs(i) ==
    /\ i \in 1..Len(peers)
    /\ Len(peers') = Len(peers)
    /\ peers[i].stage = "Authenticating"
    /\ peers'[i].stage = "MenuDisplayed"

\* C30: the host catalog of a session is its own.  Installing the catalog of
\* an authenticated user changes the record of that one session: the shared
\* default catalog is the one loaded at startup in every state, every other
\* session keeps its stage and catalog, the catalog installed is a function
\* of the startup default and the user's host file alone, and once installed
\* it stays what it is whatever the other sessions do, until the session
\* ends.
C30_CatalogIsPerSession ==
    /\ [](configHosts = DefaultCatalog)
    /\ [][\A i \in 1..MaxPeers : Installs(i) =>
             /\ \A j \in 1..Len(peers) : j # i => peers'[j] = peers[j]
             /\ \E n \in 1..Len(authUsers) :
                    LET f == authUsers[n].HostFile
                    IN  peers'[i].hosts =
                           IF f = "user_ok" THEN Catalog(f, 2)
                           ELSE IF f = "user_empty" THEN <<>>
                           ELSE DefaultCatalog]_vars
    /\ [][Len(peers') = Len(peers) =>
             \A j \in 1..Len(peers) : HasCatalog(peers[j]) =>
                 /\ HasCatalog(peers'[j])
                 /\ peers'[j].hosts = peers[j].hosts]_vars
    /\ [][Len(peers') > Len(peers) =>
             \A j \in 1..Len(peers) : peers'[j] = peers[j]]_vars
    /\ [][Len(peers') < Len(peers) =>
             \E i \in 1..Len(peers) :
                 /\ ~(peers[i].stage = "Relaying")
                 /\ \A j \in 1..Len(peers') :
                        peers'[j] = IF j < i THEN peers[j] ELSE peers[j + 1]]_vars

\* a session relaying with the catalog of its user beside a session that
\* authenticated later and has the default catalog
C30_Witness ==
    /\ Len(peers) = 2
    /\ peers[1].stage = "Relaying" /\ peers[1].hosts = Catalog("user_ok", 2)
    /\ peers[2].stage = "MenuDisplayed" /\ peers[2].hosts = DefaultCatalog
    /\ configHosts = DefaultCatalog

\* ---------------------------------------------------------------------------
\* C31

ExitPaths == {"negotiateFailed", "pf9", "authError", "menuError", "disconnect"}

\* C31: the client conn of an accepted connection is open exactly while its
\* handler has not returned.  The handler returns on a failed handshake, the
\* logoff key, a screen error at the login form or at the menu, and a
\* disconnect token, and on each of these the conn is closed in the same
\* step; it is never closed while the session is at the login form, at the
\* menu or in a relay, and a closed conn is not opened again.
C31_ConnClosedExactlyAtReturn ==
    /\ [](connOpen <=> pc \notin {"Closed", "Unaccepted"})
    /\ [](SessionState \in {"Handshaking", "Authenticating", "MenuDisplayed",
                             "Relaying", "ErrorNotice"} => connOpen)
    /\ [][(pc # "Closed" /\ pc' = "Closed") =>
             /\ connOpen /\ ~connOpen'
             /\ exit = "none" /\ exit' \in ExitPaths
             /\ SessionState \in {"Handshaking", "Authenticating", "MenuDisplayed"}]_vars
    /\ [][(connOpen /\ ~connOpen') => pc' = "Closed"]_vars
    /\ [][pc = "Closed" => pc' = "Closed" /\ ~connOpen']_vars

\* an authenticated session ended by the disconnect token x
C31_Witness ==
    /\ pc = "Closed"
    /\ exit = "disconnect"
    /\ ~connOpen
    /\ session.authenticated
    /\ selection = <<"x">>

\* ---------------------------------------------------------------------------
\* C32

\* C32: a call of connectToHost opens the backend connection at most once,
\* at its dial, and has closed it when it returns after a relay; a closed
\* backend connection is not opened again in the call.  A session at the
\* login form, at the menu, at the error notice or ended holds no backend
\* connection, and a backend connection is open only inside the one relay of
\* the session, between the dial and the engine's Close.
C32_BackendClosedBeforeReturn ==
    /\ [][(target # "open" /\ target' = "open") =>
             pc = "dial" /\ target = "none" /\ pc' = "waitErr"]_vars
    /\ [][target = "closed" => target' \in {"closed", "none"}]_vars
    /\ [][(target = "open" /\ target' # "open") =>
             pc = "closeTarget" /\ target' = "closed"]_vars
    /\ [][(pc = "ret" /\ pc' # "ret") => target = "closed" /\ target' = "none"]_vars
    /\ [](pc \in {"wgWait", "reset", "reneg", "ret"} => target = "closed")
    /\ [](SessionState # "Relaying" => target = "none")
    /\ [](target = "open" => pc \in {"waitErr", "closeTarget"})

\* back at the menu after a relay, with no backend connection left
C32_Witness ==
    /\ pc = "MenuDisplayed"
    /\ result = "nil"
    /\ target = "none"
    /\ connOpen

\* ---------------------------------------------------------------------------
\* C33

NoDeadlines == connRD = NoDeadline /\ connWD = NoDeadline

\* C33: a session waiting for input at the login form, the menu or the error
\* notice has no read and no write deadline on its client conn.  The
\* handshake deadline is removed when the negotiation succeeds, and each
\* return of connectToHost (the failed dial, a relay followed by a successful
\* re-negotiation, a relay after which every attempt failed) removes what
\* the call had set: the 10 s deadlines of the un-negotiation and the
\* re-negotiation and the short read and the write deadline of the
\* direction tasks.
C33_NoDeadlineWhileWaitingForInput ==
    /\ [](pc \in {"Authenticating", "MenuDisplayed", "ErrorNotice"} => NoDeadlines)
    /\ [][(pc = "Handshaking" /\ pc' = "Authenticating") =>
             ~(connRD = NoDeadline) /\ NoDeadlines']_vars
    /\ [][(pc \in {"dial", "ret"} /\ pc' \in {"MenuDisplayed", "ErrorNotice"}) =>
             NoDeadlines']_vars
    /\ [][(pc = "reneg" /\ pc' = "ret" /\ ~negotiateErr') => NoDeadlines']_vars

\* the menu after a relay in which both tasks had set their deadlines on the
\* client conn and all re-negotiation attempts failed
C33_Witness ==
    /\ pc = "MenuDisplayed"
    /\ result = "nil"
    /\ proto = "negFailed"
    /\ NoDeadlines

\* inside the call, on its way to the return, the deadline of the last failed
\* attempt is still set
C33_DeadlineSetBeforeReturn ==
    /\ pc = "ret"
    /\ negotiateErr
    /\ connRD = RenegDeadline

\* ---------------------------------------------------------------------------
\* C34

CycleEnds(k) == sup[k] \in {"run", "accept"} /\ sup'[k] \notin {"run", "accept"}

\* C34: an accept cycle never ends without an error.  Whenever runXServer
\* returns, the supervisor holds an error, takes the error branch and restarts
\* at once or after RestartDelay; the wait of ShutdownDelay for a return
\* without error is never taken.
C34_CycleAlwaysEndsWithError ==
    /\ [][\A k \in Kinds : CycleEnds(k) =>
             /\ lastErr'[k] \in {"cert", "listen", "accept"}
             /\ wait'[k] = RestartDecision(ran[k])
             /\ sup'[k] = IF wait'[k] = 0 THEN "loopTop" ELSE "sleep"]_vars
    /\ [](\A k \in Kinds : wait[k] \in {0, RestartDelay})
    /\ [](\A k \in Kinds : sup[k] = "sleep" => lastErr[k] # "none")

\* the plaintext supervisor sleeping after an Accept error of a cycle that was
\* not long enough for an immediate restart
C34_Witness ==
    /\ sup["std"] = "sleep"
    /\ lastErr["std"] = "accept"
    /\ wait["std"] = RestartDelay
    /\ ran["std"] > 0

\* ---------------------------------------------------------------------------
\* C35

\* C35: a supervisor has at most one listener open on its port, whatever the
\* sequence of restarts.  The listener is open exactly while the accept loop
\* runs; it is closed in the step in which the cycle ends, so the supervisor
\* holds none when it sleeps, when it is at the top of its loop and when it
\* next tries to bind, and that bind can succeed.
C35_OneListenerPerEndpoint ==
    /\ [](\A k \in Kinds : listeners[k] \in {0, 1})
    /\ [](\A k \in Kinds : listeners[k] = 1 <=> sup[k] = "accept")
    /\ [][\A k \in Kinds : (sup[k] = "accept" /\ sup'[k] # "accept") =>
             listeners'[k] = 0]_vars
    /\ [](\A k \in Kinds : (mainPc = "running" /\ sup[k] = "run"
                              /\ (k = "tls" => TlsPairLoads(tlsFiles))) =>
             ENABLED (RunSetup(k) /\ sup'[k] = "accept"))

\* the encrypted endpoint listening again in a cycle that follows an Accept
\* error
C35_Witness ==
    /\ sup["tls"] = "accept"
    /\ listeners["tls"] = 1
    /\ sinceFail["tls"] > 0
    /\ ran["tls"] > 0

\* ---------------------------------------------------------------------------
\* C36

\* the session of a user whose catalog file loads and parses to an empty list
EmptyFileSession ==
    /\ session.authenticated
    /\ session.hostFile # ""
    /\ ~ReadFile(session.hostFile).err
    /\ ~Unmarshal(session.hostFile, ReadFile(session.hostFile).data).err
    /\ Unmarshal(session.hostFile, ReadFile(session.hostFile).data).hosts = <<>>

\* C36: a user file that is read and parsed but lists no host is installed
\* as it is, not replaced by the default catalog.  In that session the
\* catalog is empty at the menu, no selection is taken as a host number, the
\* session never leaves the menu for the relay engine, and it leaves the
\* menu only by closing on a disconnect token or on a screen error.
C36_EmptyCatalogIsNotDefault ==
    /\ []((EmptyFileSession /\ pc = "MenuDisplayed") =>
             /\ userHosts = <<>>
             /\ \A sel \in Selections :
                    MenuDecision(sel, Len(userHosts)) \in {"disconnect", "redisplay"})
    /\ [](EmptyFileSession => pc \in {"Authenticating", "MenuDisplayed", "Closed"})
    /\ [](EmptyFileSession => target = "none")
    /\ [][(EmptyFileSession /\ pc = "MenuDisplayed" /\ pc' # "MenuDisplayed") =>
             /\ pc' = "Closed"
             /\ exit' \in {"disconnect", "menuError"}
             /\ (exit' = "disconnect" => IsDisconnect(selection'))]_vars

\* such a session typed the number of the first host and is shown the menu
\* again
C36_Witness ==
    /\ EmptyFileSession
    /\ pc = "MenuDisplayed"
    /\ userHosts = <<>>
    /\ selection = <<"1">>
    /\ invalidRun > 0

\* ---------------------------------------------------------------------------
\* C37

\* the errors a failed Write can return
WriteErrors == {"timeout", "reset", "closed"}

\* C37: in a direction task a Write that fails is a genuine error.  The step
\* in which the task leaves its Write for good sends that one error, cancels
\* the context and ends the task; when the 5 s write deadline has run out on
\* a connection the engine has not closed, the Write can fail with the
\* timeout and that failure is reported, unlike the timeout of a Read; and
\* once a task has reported, the engine leaves its wait and the relay ends.
C37_WriteFailureEndsRelay ==
    /\ [][\A i \in Tasks : (tpc[i] = "write" /\ tpc'[i] = "done") =>
             /\ Len(errChan') = Len(errChan) + 1
             /\ SubSeq(errChan', 1, Len(errChan)) = errChan
             /\ errChan'[Len(errChan')] \in WriteErrors
             /\ ctxDone'
             /\ wg' = wg - 1]_vars
    /\ [][\A i \in Tasks : (tpc[i] = "write" /\ tpc'[i] = "select") =>
             UNCHANGED <<errChan, ctxDone, wg>>]_vars
    /\ [](\A i \in Tasks :
             (tpc[i] = "write" /\ tleft[i] = 0 /\ ~LocallyClosed(Dst(i))) =>
                 /\ ENABLED (TaskWriteError(i) /\ errChan' = Append(errChan, "timeout")
                               /\ ctxDone' /\ tpc'[i] = "done")
                 /\ ~ENABLED (TaskWriteError(i) /\ tpc'[i] # "done"))
    /\ \A i \in Tasks :
          (pc = "waitErr" /\ tpc[i] = "done") ~> (pc = "reset" /\ wg = 0 /\ target = "closed")

\* the backend accepted no data for the whole write deadline: the task
\* client -> target has reported the timeout and the context is cancelled
C37_Witness ==
    /\ timed
    /\ tpc["c2t"] = "done"
    /\ tleft["c2t"] = 0
    /\ errChan = <<"timeout">>
    /\ ctxDone
    /\ pc = "waitErr"
    /\ target = "open"

\* ---------------------------------------------------------------------------
\* C38

\* the values sent on errChan since make(chan error, 2): those still
\* buffered and the one the engine has received
Sent == Len(errChan) + (IF finalErr = "none" THEN 0 ELSE 1)

\* the direction tasks that have returned
Returned == {i \in Tasks : tpc[i] = "done"}

\* C38: in a relay no more than two values are ever sent on errChan, at most
\* one for each direction task that has returned, and the buffer never holds
\* more than its capacity of two.  A task that is in a Read or Write always
\* finds room for its error, also on the backend connection the engine has
\* closed after it consumed the first error, so no send blocks; and while
\* the engine is at wg.Wait() with a task still running, that task can take
\* a step, so the barrier is passed.
C38_ErrChanNeverBlocks ==
    /\ [](pc \in {"waitErr", "closeTarget", "wgWait"} =>
             /\ Sent <= Cardinality(Returned)
             /\ Sent <= ErrChanCap
             /\ Len(errChan) <= ErrChanCap
             /\ wg = Cardinality(Tasks \ Returned))
    /\ [](\A i \in Tasks :
             /\ tpc[i] = "read" => ENABLED TaskReadError(i)
             /\ tpc[i] = "write" => ENABLED TaskWriteError(i))
    /\ []((pc = "wgWait" /\ wg > 0) =>
             ENABLED (ForwardClientToTarget \/ ForwardTargetToClient))
    /\ []((pc = "wgWait" /\ wg = 0) => ENABLED WgWait)

\* the engine has consumed the first error and closed the backend, and the
\* other task has sent the error of its read on the closed connection
C38_Witness ==
    /\ pc = "wgWait"
    /\ target = "closed"
    /\ finalErr = "EOF"
    /\ errChan = <<"closed">>
    /\ Returned = Tasks
    /\ wg = 0

\* ---------------------------------------------------------------------------
\* C39

\* a supervisor moves: its position in the restart loop, its listener or the
\* error of its last cycle changes
SupervisorMoves(k) ==
    \/ sup'[k] # sup[k]
    \/ listeners'[k] # listeners[k]
    \/ lastErr'[k] # lastErr[k]
    \/ wait'[k] # wait[k]

\* C39: the failure of an accept cycle and the restart that follows it
\* (the return of runXServer, the supervisor's sleep, the next Listen) leave
\* every accepted session as it is: the sessions running beside the accept
\* loop keep their number, their stage (a relay stays a relay) and their
\* catalog, and the followed connection keeps its state, its open client
\* connection and its relay.
C39_RestartLeavesSessionsAlone ==
    /\ [][(\E k \in Kinds : SupervisorMoves(k)) =>
             /\ peers' = peers
             /\ UNCHANGED <<handlerVars, authVars, menuVars, relayVars>>]_vars
    /\ [][\A k \in Kinds : (sup[k] = "accept" /\ sup'[k] = "sleep") =>
             /\ lastErr'[k] = "accept"
             /\ \A j \in 1..Len(peers) :
                    j \in 1..Len(peers') /\ peers'[j] = peers[j]]_vars

\* the accept cycle of the plaintext endpoint has failed and its supervisor
\* sleeps, while a session accepted by that endpoint is relaying
C39_Witness ==
    /\ sup["std"] = "sleep"
    /\ lastErr["std"] = "accept"
    /\ listeners["std"] = 0
    /\ \E j \in 1..Len(peers) : peers[j].kind = "std" /\ peers[j].stage = "Relaying"

\* ---------------------------------------------------------------------------
\* C40

\* the handler steps that do not read the endpoint kind: HandleAuth without
\* a login, handleProxyConnection and connectToHost
KindBlindStep ==
    \/ AuthScreenError
    \/ AuthLogoff
    \/ MenuScreenError
    \/ MenuEnter
    \/ Unnegotiate
    \/ DialFail
    \/ DialOk
    \/ ErrorNoticeDone
    \/ ForwardClientToTarget
    \/ ForwardTargetToClient
    \/ RecvErr
    \/ CloseTarget
    \/ WgWait
    \/ ResetClient
    \/ Renegotiate
    \/ ConnectReturn

\* the deadline each handler sets for the handshake
HandshakeDeadline(k) == IF k = "std" THEN StdHandshakeDeadline ELSE TlsHandshakeDeadline

\* C40: after the handshake deadline is set the two handlers are the same
\* machine.  The handshake ends as the same NegotiateTelnet result decides
\* whatever the endpoint and leaves no deadline behind at the login form and
\* the menu; for every stored user the catalog one handler
\* installs is the catalog the other installs, and a login installs exactly
\* that; every later step is one of HandleAuth, handleProxyConnection or
\* connectToHost, which do not look at the endpoint; the connection closes
\* in the step that returns from the handler, for the same reasons.  The
\* handlers differ in the deadline of the handshake alone.
C40_HandlersEquivalentAfterHandshake ==
    /\ [][kind' = kind]_vars
    /\ [](pc = "Handshaking" =>
             /\ connRD = HandshakeDeadline(kind)
             /\ connWD = HandshakeDeadline(kind)
             /\ \A ok \in BOOLEAN : ENABLED NegotiateResult(ok))
    /\ [][pc = "Handshaking" => \E ok \in BOOLEAN : NegotiateResult(ok)]_vars
    /\ [](pc = "Authenticating" =>
             \A n \in 1..Len(authUsers) :
                /\ StdUserHosts(configHosts, authUsers[n].HostFile) =
                      TlsUserHosts(configHosts, authUsers[n].HostFile)
                /\ InstallCatalog("std", configHosts, authUsers[n].HostFile) =
                      InstallCatalog("tls", configHosts, authUsers[n].HostFile))
    /\ [][(pc = "Authenticating" /\ pc' = "MenuDisplayed") =>
             /\ userHosts' = InstallCatalog(Other(kind), configHosts, session'.hostFile).userConfig
             /\ configHosts' = InstallCatalog(Other(kind), configHosts, session'.hostFile).config]_vars
    /\ [][pc \notin {"Accepted", "Handshaking"} => (AuthEnter \/ KindBlindStep)]_vars
    /\ [][(connOpen /\ ~connOpen') => (pc' = "Closed" /\ exit' \in ExitPaths)]_vars
    /\ [](pc \in {"Authenticating", "MenuDisplayed"} => NoDeadlines)

\* a session of the encrypted endpoint at the menu with the catalog of its
\* user's file installed, as the plaintext handler installs it
C40_Witness ==
    /\ kind = "tls"
    /\ pc = "MenuDisplayed"
    /\ session.hostFile = "user_ok"
    /\ userHosts = Catalog("user_ok", 2)
    /\ userHosts = StdUserHosts(configHosts, session.hostFile)

====
